---- MODULE Spec2Model ----
(***************************************************************************)
(* Golf mini-game: the replay/session guard (play and session-create       *)
(* routes, SecurityManager, sessionManager) and the deterministic physics  *)
(* core (SeededRNG, GolfPhysicsSimulator); and on the client the play page, *)
(* the trajectory previews of PhysicsUtils and the WalletManager.          *)
(*                                                                         *)
(* Numbers.  The simulator works on IEEE doubles and rounds positions and  *)
(* velocities to 4 decimals at the end of every step.  Here a real x is    *)
(* the integer x * Scale (Scale = 10^5, one digit finer than the rounding  *)
(* grid, so that rounding is an operation that can change a value).        *)
(* Coefficients below 1 are kept in millionths.  A state's time is the     *)
(* number of timesteps of 1/120 s added to it; the double that the         *)
(* additions give is TimeAfter.  Angles are whole degrees (90 stands for   *)
(* pi/2), power is in thousandths.  A 32-bit word is a pair <<hi, lo>> of  *)
(* 16-bit halves.  Server time is in milliseconds since the process        *)
(* started.                                                                *)
(***************************************************************************)
EXTENDS Integers, Sequences, FiniteSets, TLC

(***************************************************************************)
(* Arithmetic helpers                                                      *)
(***************************************************************************)
Abs(x) == IF x < 0 THEN -x ELSE x

Max2(a, b) == IF a >= b THEN a ELSE b

Min2(a, b) == IF a <= b THEN a ELSE b

\* Math.round on the quotient n/d (d > 0): nearest, halves toward +infinity.
RoundDiv(n, d) == (2 * n + d) \div (2 * d)

MulBase == 2 ^ 7

\* one digit of the long multiplication below: h = <<q, r>> so far, d the
\* next partial product
MulQRDigit(h, d, c) ==
  <<MulBase * h[1] + ((MulBase * h[2] + d) \div c), (MulBase * h[2] + d) % c>>

\* <<q, r>> with a*b = q*c + r and 0 <= r < c, for 0 <= a < c and b >= 0,
\* computed digit by digit of b so that no intermediate leaves 32 bits
RECURSIVE MulQR(_, _, _)
MulQR(a, b, c) ==
  IF b = 0 THEN <<0, 0>>
  ELSE MulQRDigit(MulQR(a, b \div MulBase, c), a * (b % MulBase), c)

\* a*b/c for a, b >= 0 and c > 0, rounded to nearest.
MulDivPos(a, b, c) ==
  LET qr == MulQR(a % c, b, c)
  IN (a \div c) * b + qr[1] + (IF 2 * qr[2] >= c THEN 1 ELSE 0)

\* a*b/c for integers a, b and c > 0 (a double product followed by a division).
MulDiv(a, b, c) ==
  IF (a < 0) = (b < 0) THEN MulDivPos(Abs(a), Abs(b), c)
  ELSE -MulDivPos(Abs(a), Abs(b), c)

\* the largest root r + d * w (d a hex digit) whose square is at most n,
\* refined from the digit weight w down to 1
RECURSIVE IsqrtIter(_, _, _)
IsqrtIter(n, r, w) ==
  IF w = 0 THEN r
  ELSE IsqrtIter(n,
         r + w * (CHOOSE d \in 0..15 :
                    /\ r + d * w <= 46340
                    /\ (r + d * w) * (r + d * w) <= n
                    /\ (d = 15 \/ r + (d + 1) * w > 46340
                          \/ (r + (d + 1) * w) * (r + (d + 1) * w) > n)),
         w \div 16)

\* floor(Math.sqrt(n)) for 0 <= n < 2^31
Isqrt(n) == IsqrtIter(n, 0, 4096)

HypLimit == 3 * 10 ^ 4

\* Math.sqrt(x ** 2 + y ** 2); operands above HypLimit are scaled down first
Hyp(x, y) ==
  LET m == Max2(Abs(x), Abs(y))
      k == (m \div HypLimit) + 1
  IN k * Isqrt((Abs(x) \div k) * (Abs(x) \div k) + (Abs(y) \div k) * (Abs(y) \div k))

(***************************************************************************)
(* 32-bit words as <<hi, lo>>                                              *)
(***************************************************************************)
W16 == 2 ^ 16

Pow2(n) == 2 ^ n

\* bit i of a
Bit(a, i) == (a \div Pow2(i)) % 2

XorBit(a, b, i) == IF Bit(a, i) = Bit(b, i) THEN 0 ELSE Pow2(i)

OrBit(a, b, i) == IF Bit(a, i) = 1 \/ Bit(b, i) = 1 THEN Pow2(i) ELSE 0

\* bitwise exclusive or of two 16-bit halves
Xor16(a, b) ==
  XorBit(a, b, 0) + XorBit(a, b, 1) + XorBit(a, b, 2) + XorBit(a, b, 3)
  + XorBit(a, b, 4) + XorBit(a, b, 5) + XorBit(a, b, 6) + XorBit(a, b, 7)
  + XorBit(a, b, 8) + XorBit(a, b, 9) + XorBit(a, b, 10) + XorBit(a, b, 11)
  + XorBit(a, b, 12) + XorBit(a, b, 13) + XorBit(a, b, 14) + XorBit(a, b, 15)

\* bitwise or of two 16-bit halves
Or16(a, b) ==
  OrBit(a, b, 0) + OrBit(a, b, 1) + OrBit(a, b, 2) + OrBit(a, b, 3)
  + OrBit(a, b, 4) + OrBit(a, b, 5) + OrBit(a, b, 6) + OrBit(a, b, 7)
  + OrBit(a, b, 8) + OrBit(a, b, 9) + OrBit(a, b, 10) + OrBit(a, b, 11)
  + OrBit(a, b, 12) + OrBit(a, b, 13) + OrBit(a, b, 14) + OrBit(a, b, 15)

\* a ^ b
WXor(a, b) == <<Xor16(a[1], b[1]), Xor16(a[2], b[2])>>

\* a | k for a small constant k < 2^16
WOrLow(a, k) == <<a[1], Or16(a[2], k)>>

\* a >>> n for 0 < n < 16
WShr(a, n) ==
  <<a[1] \div Pow2(n), (a[2] \div Pow2(n)) + (a[1] % Pow2(n)) * Pow2(16 - n)>>

\* (a + b) mod 2^32
WAdd(a, b) ==
  LET lo == a[2] + b[2]
  IN <<(a[1] + b[1] + (lo \div W16)) % W16, lo % W16>>

\* x * y for 16-bit x, y as a 32-bit word
Mul16(x, y) ==
  LET p1 == x * (y % 256)
      p2 == x * (y \div 256)
      lo == p1 + (p2 % 256) * 256
  IN <<((p2 \div 256) + (lo \div W16)) % W16, lo % W16>>

\* Math.imul(a, b): the low 32 bits of the product
WImul(a, b) ==
  LET ll == Mul16(a[2], b[2])
      hl == Mul16(a[1], b[2])
      lh == Mul16(a[2], b[1])
  IN <<(ll[1] + hl[2] + lh[2]) % W16, ll[2]>>

\* an integer 0 <= n < 2^31 as a word
ToWord(n) == <<n \div W16, n % W16>>

(***************************************************************************)
(* SeededRNG (mulberry32)                                                  *)
(***************************************************************************)
\* 0x6d2b79f5
MulberryIncrement == <<27947, 31221>>

\* the last mixing line of next(): t ^ (t >>> 14), returned with the seed field
RngOut(s1, t2) == [seed |-> s1, out |-> WXor(t2, WShr(t2, 14))]

\* t ^= t + Math.imul(t ^ (t >>> 7), t | 61)
RngMix2(s1, t1) ==
  RngOut(s1, WXor(t1, WAdd(t1, WImul(WXor(t1, WShr(t1, 7)), WOrLow(t1, 61)))))

\* variant of the first mixing line that shifts by 14
RngMix1Shift14(s1) == RngMix2(s1, WImul(WXor(s1, WShr(s1, 14)), WOrLow(s1, 1)))

\* t = Math.imul(t ^ (t >>> 15), t | 1)
RngMix1(s1) == RngMix2(s1, WImul(WXor(s1, WShr(s1, 15)), WOrLow(s1, 1)))

\* SeededRNG.next(): the new seed field and the 32-bit numerator of the
\* returned fraction (value = out / 2^32)
RngNext(seed) == RngMix1(WAdd(seed, MulberryIncrement))

\* min + fraction * (max - min), the fraction taken to its 16 leading bits
RangeOf(n, min, max) == [seed |-> n.seed, value |-> min + MulDiv(max - min, n.out[1], W16)]

\* SeededRNG.range(min, max) = min + next() * (max - min)
RngRange(seed, min, max) == RangeOf(RngNext(seed), min, max)

(***************************************************************************)
(* Physics configuration                                                   *)
(***************************************************************************)
Scale == 10 ^ 5

TicksPerSecond == 120

Million == 10 ^ 6

DEFAULT_PHYSICS_CONFIG ==
  [VMAX |-> 30 * Scale, friction |-> 15000, holePosition |-> [x |-> 45 * Scale, y |-> 0],
   holeRadius |-> 5400, tolerance |-> 2000, windMaxMagnitude |-> 3 * Scale,
   maxSimTime |-> 15, stopSpeedThreshold |-> 5000, gravity |-> 981000,
   airResistance |-> 1000, bounceRestitution |-> 300000, rollResistance |-> 8000]

HARD_PHYSICS_CONFIG ==
  [VMAX |-> 28 * Scale, friction |-> 25000, holePosition |-> [x |-> 45 * Scale, y |-> 0],
   holeRadius |-> 25000, tolerance |-> 2000, windMaxMagnitude |-> 5 * Scale,
   maxSimTime |-> 15, stopSpeedThreshold |-> 5000, gravity |-> 981000,
   airResistance |-> 1500, bounceRestitution |-> 250000, rollResistance |-> 12000]

\* multipliers in tenths
DIFFICULTY_MULTIPLIERS ==
  [easy   |-> [friction |-> 9,  windMaxMagnitude |-> 8,  airResistance |-> 9,
               rollResistance |-> 9,  holeRadius |-> 12],
   medium |-> [friction |-> 10, windMaxMagnitude |-> 10, airResistance |-> 10,
               rollResistance |-> 10, holeRadius |-> 10],
   hard   |-> [friction |-> 12, windMaxMagnitude |-> 13, airResistance |-> 12,
               rollResistance |-> 12, holeRadius |-> 8]]

\* the fields of each course that reach the physics
GOLF_COURSES ==
  <<[id |-> "augusta", difficulty |-> "medium",
     holePosition |-> [x |-> 45 * Scale, y |-> 0, z |-> 0], holeDiameter |-> 35000],
    [id |-> "desert_dunes", difficulty |-> "hard",
     holePosition |-> [x |-> 50 * Scale, y |-> 0, z |-> 2 * Scale], holeDiameter |-> 25000],
    [id |-> "links_coast", difficulty |-> "hard",
     holePosition |-> [x |-> 48 * Scale, y |-> 0, z |-> -3 * Scale], holeDiameter |-> 28000],
    [id |-> "mountain_peak", difficulty |-> "medium",
     holePosition |-> [x |-> 42 * Scale, y |-> 50000, z |-> 1 * Scale], holeDiameter |-> 32000]>>

\* CourseManager.getPhysicsConfig for the course at index c
getPhysicsConfig(c) ==
  LET course == GOLF_COURSES[c]
      multipliers == DIFFICULTY_MULTIPLIERS[course.difficulty]
  IN [HARD_PHYSICS_CONFIG EXCEPT
        !.friction = (HARD_PHYSICS_CONFIG.friction * multipliers.friction) \div 10,
        !.windMaxMagnitude = (HARD_PHYSICS_CONFIG.windMaxMagnitude * multipliers.windMaxMagnitude) \div 10,
        !.airResistance = (HARD_PHYSICS_CONFIG.airResistance * multipliers.airResistance) \div 10,
        !.rollResistance = (HARD_PHYSICS_CONFIG.rollResistance * multipliers.rollResistance) \div 10,
        !.holePosition = [x |-> course.holePosition.x, y |-> course.holePosition.z],
        !.holeRadius = ((course.holeDiameter \div 2) * multipliers.holeRadius) \div 10]

(***************************************************************************)
(* Math.cos / Math.sin                                                     *)
(***************************************************************************)
\* cos of 0, 15, ..., 90 degrees, times Scale
CosTable15 == <<100000, 96593, 86603, 70711, 50000, 25882, 0>>

\* Math.cos / Math.sin of a launch angle given in degrees (a multiple of 15
\* in [-90, 90])
CosDeg(d) == CosTable15[(Abs(d) \div 15) + 1]

SinDeg(d) == (IF d < 0 THEN -1 ELSE 1) * CosTable15[((90 - Abs(d)) \div 15) + 1]

\* cos of k/16 of a turn, k = 0..15, times Scale
CosTable16 == <<100000, 92388, 70711, 38268, 0, -38268, -70711, -92388,
                -100000, -92388, -70711, -38268, 0, 38268, 70711, 92388>>

\* Math.cos / Math.sin of next() * 2 * Math.PI, the angle taken to 1/16 turn;
\* u is the fraction's 16 leading bits
CosTurn(u) == CosTable16[(u \div 4096) + 1]

SinTurn(u) == CosTable16[(((u \div 4096) + 12) % 16) + 1]

(***************************************************************************)
(* GolfPhysicsSimulator                                                    *)
(***************************************************************************)
\* Math.round(x * 10000) / 10000
Round4(x) == RoundDiv(x, Scale \div 10000) * (Scale \div 10000)

\* Number.isInteger(input.seed): a seed is its integer part and a fraction in
\* thousandths
NumberIsInteger(input) == input.seedFrac = 0

\* variant of the error list that turns away the ball that is not struck
validateInputErrorsStrict(input) ==
  (IF input.angle < -90 \/ input.angle > 90
     THEN <<"Angle must be between -90 and 90 degrees">> ELSE <<>>)
  \o (IF input.power <= 0 \/ input.power > 1000
        THEN <<"Power must be between 0 and 1">> ELSE <<>>)
  \o (IF ~NumberIsInteger(input) \/ input.seed < 0
        THEN <<"Seed must be a non-negative integer">> ELSE <<>>)

\* validateInput: the list of errors (anglePhi is not looked at)
validateInputErrors(input) ==
  (IF input.angle < -90 \/ input.angle > 90
     THEN <<"Angle must be between -90 and 90 degrees">> ELSE <<>>)
  \o (IF input.power < 0 \/ input.power > 1000
        THEN <<"Power must be between 0 and 1">> ELSE <<>>)
  \o (IF ~NumberIsInteger(input) \/ input.seed < 0
        THEN <<"Seed must be a non-negative integer">> ELSE <<>>)

\* validateInput: the list of warnings
validateInputWarnings(input) ==
  (IF input.power < 100
     THEN <<"Very low power may not reach the hole">> ELSE <<>>)
  \o (IF Abs(input.angle) > 45
        THEN <<"High angle shots are less predictable">> ELSE <<>>)

validateInput(input) == [isValid |-> Len(validateInputErrors(input)) = 0,
                         errors |-> validateInputErrors(input),
                         warnings |-> validateInputWarnings(input)]

\* variant of reset that keeps the current seed field, as reset() does when
\* it is called without an argument
RngResetKeep(seed, newSeed) == seed

\* SeededRNG.reset(newSeed): this.seed = newSeed ?? this.seed, called by
\* simulate with the validated input seed
RngReset(seed, newSeed) == ToWord(newSeed)

\* the loop variables before the first iteration, from the three RNG draws
\* d1 (wind angle), d2 (wind magnitude), d3 (spin) and the initial speed
SimBeginWith(input, initialSpeed, d1, d2, d3) ==
  [rng |-> d3.seed,
   windEffect |-> [x |-> MulDiv(d2.value, CosTurn(d1.out[1]), Scale),
                   y |-> MulDiv(d2.value, SinTurn(d1.out[1]), Scale)],
   currentState |-> [position |-> [x |-> 0, y |-> 0],
                     velocity |-> [x |-> MulDiv(initialSpeed, CosDeg(input.angle), Scale),
                                   y |-> MulDiv(initialSpeed, SinDeg(input.angle), Scale)],
                     acceleration |-> [x |-> 0, y |-> 0],
                     spin |-> d3.value, time |-> 0, isRolling |-> FALSE],
   maxHeight |-> 0, totalDistance |-> 0, stoppedReason |-> "timeout", running |-> TRUE]

\* the spin draw, rng.range(50, 200)
SimDrawSpin(config, input, d1, d2) ==
  SimBeginWith(input, MulDiv(config.VMAX, input.power, 1000), d1, d2,
               RngRange(d2.seed, 50 * Scale, 200 * Scale))

\* the wind magnitude draw, rng.range(0, windMaxMagnitude)
SimDrawWind(config, input, d1) ==
  SimDrawSpin(config, input, d1, RngRange(d1.seed, 0, config.windMaxMagnitude))

\* the push of the initial state on the empty trajectory
SimPushInitial(b) ==
  [rng |-> b.rng, windEffect |-> b.windEffect, currentState |-> b.currentState,
   trajectory |-> <<b.currentState>>, maxHeight |-> b.maxHeight,
   totalDistance |-> b.totalDistance, stoppedReason |-> b.stoppedReason,
   running |-> b.running]

\* simulate, from the reset of the RNG to the push of the initial state:
\* the wind angle draw first, then the other two draws
SimBegin(config, rngSeed, input) ==
  SimPushInitial(SimDrawWind(config, input, RngNext(RngReset(rngSeed, input.seed))))

\* one pass through the body of the while loop up to the rounding: the
\* integration of one timestep
Integrate(config, windEffect, st) ==
  LET airborne == st.position.y > 0 \/ st.velocity.y > 0
      isRolling == ~airborne
      posY0 == IF airborne THEN st.position.y ELSE 0
      gravAcc == IF airborne THEN -config.gravity ELSE 0
      \* wind: windEffect * windMultiplier * 0.1
      windDiv == IF isRolling THEN 100 ELSE 10
      speed == Hyp(st.velocity.x, st.velocity.y)
      \* air resistance: velocity * (airResistance * speed * speed / speed)
      airX == IF speed > 0
                THEN MulDiv(MulDiv(st.velocity.x, speed, Scale), config.airResistance, Million)
                ELSE 0
      airY == IF speed > 0
                THEN MulDiv(MulDiv(st.velocity.y, speed, Scale), config.airResistance, Million)
                ELSE 0
      \* rolling resistance, on x only
      rollingForce == MulDiv(config.rollResistance, config.gravity, Million)
      rollX == IF isRolling /\ speed > 0
                 THEN (IF rollingForce >= speed THEN st.velocity.x
                       ELSE MulDiv(st.velocity.x, rollingForce, speed))
                 ELSE 0
      accX == RoundDiv(windEffect.x, windDiv) - airX - rollX
      accY == gravAcc + RoundDiv(windEffect.y, windDiv) - airY
      \* friction: velocity *= 1 - min(frictionForce * timestep / speed, 1)
      frictionForce == MulDiv(config.friction, config.gravity, Million)
      fricOn == isRolling /\ speed > 0
      velFX == IF ~fricOn THEN st.velocity.x
               ELSE IF frictionForce >= TicksPerSecond * speed THEN 0
               ELSE st.velocity.x - RoundDiv(MulDiv(st.velocity.x, frictionForce, speed), TicksPerSecond)
      velFY == IF ~fricOn THEN st.velocity.y
               ELSE IF frictionForce >= TicksPerSecond * speed THEN 0
               ELSE st.velocity.y - RoundDiv(MulDiv(st.velocity.y, frictionForce, speed), TicksPerSecond)
      \* velocity += acceleration * timestep; position += velocity * timestep
      velX == velFX + RoundDiv(accX, TicksPerSecond)
      velY1 == velFY + RoundDiv(accY, TicksPerSecond)
      posX == st.position.x + RoundDiv(velX, TicksPerSecond)
      posY1 == posY0 + RoundDiv(velY1, TicksPerSecond)
      \* ground collision
      hit == posY1 < 0
      bounce == MulDiv(Abs(velY1), config.bounceRestitution, Million)
      velY == IF hit THEN (IF bounce < Scale \div 2 THEN 0 ELSE bounce) ELSE velY1
      posY == IF hit THEN 0 ELSE posY1
  IN [position |-> [x |-> Round4(posX), y |-> Round4(posY)],
      velocity |-> [x |-> Round4(velX), y |-> Round4(velY)],
      acceleration |-> [x |-> accX, y |-> accY],
      spin |-> MulDiv(st.spin, 99, 100),
      time |-> st.time + 1,
      isRolling |-> isRolling]

\* the terminal tests at the end of the loop body, in the order of the code:
\* stopped by friction, out of bounds, in the hole; "none" lets the loop go on
StopCheck(config, st) ==
  LET currentSpeed == Hyp(st.velocity.x, st.velocity.y)
      distanceToHole == Hyp(st.position.x - config.holePosition.x,
                            st.position.y - config.holePosition.y)
  IN IF currentSpeed < config.stopSpeedThreshold /\ st.isRolling THEN "friction"
     ELSE IF Abs(st.position.y) > 20 * Scale \/ st.position.x < -5 * Scale
             \/ st.position.x > 100 * Scale THEN "boundary"
     ELSE IF distanceToHole < config.holeRadius /\ st.isRolling THEN "hole"
     ELSE "none"

\* config.timestep, the double nearest to 1/120, in units of 2^-59 and as
\* four 16-bit limbs, most significant first (0x0011111111111111)
TimestepDouble == <<17, 4369, 4369, 4369>>

\* the exact sum of two such numbers
LimbAdd(a, b) ==
  LET c0 == a[4] + b[4]
      c1 == a[3] + b[3] + (c0 \div W16)
      c2 == a[2] + b[2] + (c1 \div W16)
  IN <<a[1] + b[1] + (c2 \div W16), c2 % W16, c1 % W16, c0 % W16>>

\* the sum s rounded as a double addition rounds it: to 53 significant bits,
\* nearest, ties to even.  Bit 53 is bit 5 of the first limb; j bits are
\* dropped
RoundToDouble(s) ==
  LET j == CHOOSE n \in 0..11 : s[1] < Pow2(5 + n) /\ (n = 0 \/ s[1] >= Pow2(4 + n))
      r == s[4] % Pow2(j)
      up == j > 0 /\ (2 * r > Pow2(j) \/ (2 * r = Pow2(j) /\ Bit(s[4], j) = 1))
  IN LimbAdd(<<s[1], s[2], s[3], s[4] - r>>, <<0, 0, 0, IF up THEN Pow2(j) ELSE 0>>)

\* currentState.time after each `currentState.time += this.config.timestep`
\* of a run of n more, appended to the values so far
RECURSIVE TimeSums(_, _)
TimeSums(sums, n) ==
  IF n = 0 \/ Len(sums) = 0 THEN sums
  ELSE IF n = 1
    THEN Append(sums, RoundToDouble(LimbAdd(sums[Len(sums)], TimestepDouble)))
  ELSE TimeSums(TimeSums(sums, n \div 2), n - (n \div 2))

\* the longest simulated time of any configuration, in seconds
MaxSimSeconds == 15

\* currentState.time by the number of timesteps added to it, from 0
TimeAfter == TimeSums(<<<<0, 0, 0, 0>>>>, MaxSimSeconds * TicksPerSecond + 2)

\* the loop guard: currentState.time < maxSimTime, on the time as the loop
\* has summed it (st.time counts the timesteps added)
LoopGuard(config, st) == TimeAfter[st.time + 1][1] \div Pow2(11) < config.maxSimTime

\* variant of the end of the loop body that pushes currentState itself, not
\* a clone: every entry of the trajectory is then the one state object
SimStepStopShared(config, ls, st, stop) ==
  [ls EXCEPT
     !.currentState = st,
     !.maxHeight = Max2(ls.maxHeight, st.position.y),
     !.totalDistance = ls.totalDistance
                         + Hyp(st.position.x - ls.currentState.position.x,
                               st.position.y - ls.currentState.position.y),
     !.trajectory = [i \in 1..(Len(ls.trajectory) + 1) |-> st],
     !.stoppedReason = IF stop = "none" THEN ls.stoppedReason ELSE stop,
     !.running = (stop = "none") /\ LoopGuard(config, st)]

\* the end of the loop body for the integrated state st: the running
\* maximum and distance, the push on the trajectory, the terminal tests
SimStepStop(config, ls, st, stop) ==
  [ls EXCEPT
     !.currentState = st,
     !.maxHeight = Max2(ls.maxHeight, st.position.y),
     !.totalDistance = ls.totalDistance
                         + Hyp(st.position.x - ls.currentState.position.x,
                               st.position.y - ls.currentState.position.y),
     !.trajectory = Append(ls.trajectory, st),
     !.stoppedReason = IF stop = "none" THEN ls.stoppedReason ELSE stop,
     !.running = (stop = "none") /\ LoopGuard(config, st)]

SimStepWith(config, ls, st) == SimStepStop(config, ls, st, StopCheck(config, st))

\* variant of the iteration that draws a new wind from the RNG on every step
SimStepRedraw(config, ls) ==
  SimStepWith(config,
              [ls EXCEPT !.rng = RngNext(ls.rng).seed,
                         !.windEffect = [x |-> RngRange(ls.rng, 0, config.windMaxMagnitude).value,
                                         y |-> 0]],
              Integrate(config, ls.windEffect, ls.currentState))

\* one iteration of the while loop on the loop variables ls
SimStep(config, ls) ==
  SimStepWith(config, ls, Integrate(config, ls.windEffect, ls.currentState))

\* variant of the outcome line that also counts a ball stopped by friction
OutcomeAnyStop(stoppedReason) == IF stoppedReason \in {"hole", "friction"} THEN "win" ELSE "lose"

\* the outcome line: win only for the hole
Outcome(stoppedReason) == IF stoppedReason = "hole" THEN "win" ELSE "lose"

\* the SimulationResult built from the loop variables after the loop
SimResult(ls) ==
  [trajectory |-> ls.trajectory, outcome |-> Outcome(ls.stoppedReason),
   finalPosition |-> ls.currentState.position, totalTime |-> ls.currentState.time,
   maxHeight |-> ls.maxHeight, totalDistance |-> ls.totalDistance,
   windEffect |-> ls.windEffect, stoppedReason |-> ls.stoppedReason]

\* at most n iterations of the while loop (split in halves, so that the
\* evaluation nests only logarithmically deep)
RECURSIVE SimLoop(_, _, _)
SimLoop(config, ls, n) ==
  IF n = 0 \/ ~ls.running THEN ls
  ELSE IF n = 1 THEN SimStep(config, ls)
  ELSE SimLoop(config, SimLoop(config, ls, n \div 2), n - (n \div 2))

\* the while loop from the loop variables b of SimBegin
SimRun(config, b) ==
  IF LoopGuard(config, b.currentState)
  THEN SimLoop(config, b, Len(TimeAfter) - 1)
  ELSE [b EXCEPT !.running = FALSE]

\* simulate(input) on a simulator whose RNG field is rngSeed, for a valid input
Simulate(config, rngSeed, input) == SimResult(SimRun(config, SimBegin(config, rngSeed, input)))

(***************************************************************************)
(* createSimulator and the shots the model plays                           *)
(***************************************************************************)
\* new SeededRNG(0), the RNG field of a freshly constructed simulator
FreshRng == ToWord(0)

\* createSimulator(config): { ...DEFAULT_PHYSICS_CONFIG, ...config }
createSimulatorWith(overrides) ==
  [k \in DOMAIN DEFAULT_PHYSICS_CONFIG |->
     IF k \in DOMAIN overrides THEN overrides[k] ELSE DEFAULT_PHYSICS_CONFIG[k]]

\* createSimulator(): the configuration of a randomly selected course
CourseConfigs == {getPhysicsConfig(c) : c \in 1..Len(GOLF_COURSES)}

\* session seeds, Math.floor(Math.random() * 1000000)
Seeds == {12345}

\* the shot sent to the play route: a full-power drive along the ground
Shots == {[angle |-> 0, anglePhi |-> 0, power |-> 1000]}

WithSeed(shot, seed) ==
  [angle |-> shot.angle, anglePhi |-> shot.anglePhi, power |-> shot.power,
   seed |-> seed, seedFrac |-> 0]

InRange(shot) ==
  /\ shot.angle >= -90 /\ shot.angle <= 90
  /\ shot.power >= 0 /\ shot.power <= 1000
  /\ shot.anglePhi >= -90 /\ shot.anglePhi <= 90

\* what the play route reads of simulator.simulate(...) on a fresh simulator,
\* for every course, seed and in-range shot
PlayResults ==
  [config \in CourseConfigs |->
    [seed \in Seeds |->
      [shot \in {sh \in Shots : InRange(sh)} |->
        LET r == Simulate(config, FreshRng, WithSeed(shot, seed))
        IN [outcome |-> r.outcome, stoppedReason |-> r.stoppedReason,
            totalTime |-> r.totalTime, trajectoryLength |-> Len(r.trajectory),
            finalPosition |-> r.finalPosition, windEffect |-> r.windEffect]]]]

(***************************************************************************)
(* SecurityManager                                                         *)
(***************************************************************************)
DEFAULT_SECURITY_CONFIG ==
  [maxSessionsPerIP |-> 5, sessionTimeoutMinutes |-> 30, maxPlaysPerSession |-> 1,
   replayProtectionWindowMs |-> 60000, suspiciousPlayThreshold |-> 3]

\* the one-second window of validatePlay, in ms
RecentWindowMs == 1000

\* the retention of cleanup(), in ms
CleanupCutoffMs == 60 * 60 * 1000

\* SelectSeq without a lambda: the elements of s greater than cutoff
RECURSIVE NewerThan(_, _)
NewerThan(s, cutoff) ==
  IF s = <<>> THEN <<>>
  ELSE IF Head(s) > cutoff THEN <<Head(s)>> \o NewerThan(Tail(s), cutoff)
  ELSE NewerThan(Tail(s), cutoff)

\* variant of validateSessionCreation that refuses only above the limit
validateSessionCreationOver(ipSess, clientIP) ==
  IF Len(ipSess[clientIP]) > DEFAULT_SECURITY_CONFIG.maxSessionsPerIP
  THEN [allowed |-> FALSE, reason |-> "Too many active sessions from this IP"]
  ELSE [allowed |-> TRUE, reason |-> ""]

validateSessionCreation(ipSess, clientIP) ==
  IF Len(ipSess[clientIP]) >= DEFAULT_SECURITY_CONFIG.maxSessionsPerIP
  THEN [allowed |-> FALSE, reason |-> "Too many active sessions from this IP"]
  ELSE [allowed |-> TRUE, reason |-> ""]

registerSession(ipSess, clientIP, sessionId) ==
  [ipSess EXCEPT ![clientIP] = Append(@, sessionId)]

\* the timestamp of a play as the arithmetic of validatePlay takes it: a
\* number, or NaN for an input without a timestamp (now - undefined)
Num(value) == [isNaN |-> FALSE, value |-> value]

NaN == [isNaN |-> TRUE, value |-> 0]

\* variant of the window test that looks at stale timestamps only
OutsideWindowPastOnly(nowMs, timestamp) ==
  /\ ~timestamp.isNaN
  /\ nowMs - timestamp.value > DEFAULT_SECURITY_CONFIG.replayProtectionWindowMs

\* Math.abs(now - timestamp) > replayProtectionWindowMs; a comparison with
\* NaN is false
OutsideWindow(nowMs, timestamp) ==
  /\ ~timestamp.isNaN
  /\ Abs(nowMs - timestamp.value) > DEFAULT_SECURITY_CONFIG.replayProtectionWindowMs

\* variant of validatePlay in which a call rejected for the burst window is
\* registered like an allowed one
validatePlayExtending(recent, sessionId, timestamp, nowMs) ==
  IF OutsideWindow(nowMs, timestamp)
  THEN [allowed |-> FALSE, reason |-> "Timestamp outside acceptable window",
        recentPlays |-> recent]
  ELSE LET filteredPlays == NewerThan(recent[sessionId], nowMs - RecentWindowMs)
       IN IF Len(filteredPlays) > 0
          THEN [allowed |-> FALSE, reason |-> "Too many plays in short time window",
                recentPlays |-> [recent EXCEPT ![sessionId] = Append(filteredPlays, nowMs)]]
          ELSE [allowed |-> TRUE, reason |-> "",
                recentPlays |-> [recent EXCEPT ![sessionId] = Append(filteredPlays, nowMs)]]

\* returns the verdict and the recentPlays map the call leaves behind
validatePlay(recent, sessionId, timestamp, nowMs) ==
  IF OutsideWindow(nowMs, timestamp)
  THEN [allowed |-> FALSE, reason |-> "Timestamp outside acceptable window",
        recentPlays |-> recent]
  ELSE LET filteredPlays == NewerThan(recent[sessionId], nowMs - RecentWindowMs)
       IN IF Len(filteredPlays) > 0
          THEN [allowed |-> FALSE, reason |-> "Too many plays in short time window",
                recentPlays |-> recent]
          ELSE [allowed |-> TRUE, reason |-> "",
                recentPlays |-> [recent EXCEPT ![sessionId] = Append(filteredPlays, nowMs)]]

reportSuspiciousActivity(susp, identifier) ==
  [susp EXCEPT ![identifier] = @ + 1]

cleanup(recent, nowMs) ==
  [id \in DOMAIN recent |-> NewerThan(recent[id], nowMs - CleanupCutoffMs)]

(***************************************************************************)
(* Session store and the two routes                                        *)
(***************************************************************************)
\* the sweep period of the session store, in ms
SweepIntervalMs == 5 * 60 * 1000

\* the lifetime the session route gives a session, in ms
SessionLifetimeMs == 30 * 60 * 1000

\* variant of the sweep that also removes a session at the instant it expires
SweepSessionsAtExpiry(sess, nowMs) ==
  [id \in {i \in DOMAIN sess : sess[i].expiresAt > nowMs} |-> sess[id]]

\* the sessions the periodic sweep keeps
SweepSessions(sess, nowMs) ==
  [id \in {i \in DOMAIN sess : ~(sess[i].expiresAt < nowMs)} |-> sess[id]]

\* sessionManager.delete: the store without the session, and whether it was there
sessionManagerDelete(sess, sessionId) ==
  [sessions |-> [id \in DOMAIN sess \ {sessionId} |-> sess[id]],
   result |-> sessionId \in DOMAIN sess]

\* sessionManager.update: Object.assign onto the stored session, if present
sessionManagerUpdate(sess, sessionId, updates) ==
  IF sessionId \in DOMAIN sess THEN [sess EXCEPT ![sessionId] = updates] ELSE sess

\* variant of the coupon-list check that lets longer lists through
ValidCouponIdsAtLeast(couponIds) ==
  couponIds.present /\ couponIds.isArray /\ Len(couponIds.items) >= 5

\* the coupon-list check of the session route, on the couponIds of the body:
\* !couponIds || !Array.isArray(couponIds) || couponIds.length !== 5
ValidCouponIds(couponIds) ==
  couponIds.present /\ couponIds.isArray /\ Len(couponIds.items) = 5

\* variant of the checks of the play route with the used test ahead of the
\* expiry test
PlayRejectUsedFirst(sess, recent, req, nowMs) ==
  IF req.sessionId \notin DOMAIN sess
    THEN [status |-> 404, error |-> "Invalid session", recentPlays |-> recent]
  ELSE IF sess[req.sessionId].used
    THEN [status |-> 409, error |-> "Session already used", recentPlays |-> recent]
  ELSE IF nowMs > sess[req.sessionId].expiresAt
    THEN [status |-> 410, error |-> "Session expired", recentPlays |-> recent]
  ELSE LET securityCheck == validatePlay(recent, req.sessionId, req.timestamp, nowMs)
       IN IF ~securityCheck.allowed
            THEN [status |-> 429, error |-> securityCheck.reason,
                  recentPlays |-> securityCheck.recentPlays]
          ELSE IF req.missing # {}
            THEN [status |-> 400, error |-> "Invalid input parameters",
                  recentPlays |-> securityCheck.recentPlays]
          ELSE IF ~InRange(req)
            THEN [status |-> 400, error |-> "Input parameters out of valid range",
                  recentPlays |-> securityCheck.recentPlays]
          ELSE [status |-> 200, error |-> "", recentPlays |-> securityCheck.recentPlays]

\* the response the play route gives before it runs the simulator, if any:
\* the first failing check in the order of the code
PlayReject(sess, recent, req, nowMs) ==
  IF req.sessionId \notin DOMAIN sess
    THEN [status |-> 404, error |-> "Invalid session", recentPlays |-> recent]
  ELSE IF nowMs > sess[req.sessionId].expiresAt
    THEN [status |-> 410, error |-> "Session expired", recentPlays |-> recent]
  ELSE IF sess[req.sessionId].used
    THEN [status |-> 409, error |-> "Session already used", recentPlays |-> recent]
  ELSE LET securityCheck == validatePlay(recent, req.sessionId, req.timestamp, nowMs)
       IN IF ~securityCheck.allowed
            THEN [status |-> 429, error |-> securityCheck.reason,
                  recentPlays |-> securityCheck.recentPlays]
          ELSE IF req.missing # {}
            THEN [status |-> 400, error |-> "Invalid input parameters",
                  recentPlays |-> securityCheck.recentPlays]
          ELSE IF ~InRange(req)
            THEN [status |-> 400, error |-> "Input parameters out of valid range",
                  recentPlays |-> securityCheck.recentPlays]
          ELSE [status |-> 200, error |-> "", recentPlays |-> securityCheck.recentPlays]

\* the session after an accepted play: used and lastPlayAt only on a win,
\* playCount always
SessionAfterPlay(session, outcome, nowMs) ==
  [session EXCEPT !.used = IF outcome = "win" THEN TRUE ELSE @,
                  !.lastPlayAt = IF outcome = "win" THEN nowMs ELSE @,
                  !.playCount = @ + 1]

\* the keys of COUPON_DATA, the coupons the play route knows
COUPON_DATA == {"c1", "c2", "c3", "c4", "c5"}

\* the coupon id the win block selects, couponIds[seed % length]
SelectedCoupon(session) ==
  session.couponIds[(session.seed % Len(session.couponIds)) + 1]

\* the id of the awardedCoupon of a winning play: the selected coupon if
\* COUPON_DATA has it, and no coupon ("") otherwise
AwardedCoupon(session) ==
  IF SelectedCoupon(session) \in COUPON_DATA THEN SelectedCoupon(session) ELSE ""

(***************************************************************************)
(* State of the server: the session store, the SecurityManager singleton,  *)
(* the clock, and the play requests whose body is still being read         *)
(***************************************************************************)
MaxSessions == 6
MaxTicks == 1
MaxPlays == 3
MaxInflight == 2

IPs == {"ip1", "ip2"}

\* clock advances, in ms: the burst window, and just over the retention of
\* cleanup(), which is past every session's lifetime and the sweep period
Deltas == {RecentWindowMs, CleanupCutoffMs + 1}

\* the addresses play requests come from
PlayIPs == {"ip1"}

\* a couponIds value of a request body: whether it is there (truthy),
\* whether it is an array, and its elements (the characters of a string)
CouponArray(items) == [present |-> TRUE, isArray |-> TRUE, items |-> items]

NoCoupons == [present |-> FALSE, isArray |-> FALSE, items |-> <<>>]

\* the coupons of the wallet, in the order the client sends them
KnownCoupons == CouponArray(<<"c1", "c2", "c3", "c4", "c5">>)

\* five ids of which the first is not a coupon of COUPON_DATA
ForeignCoupons == CouponArray(<<"x1", "c2", "c3", "c4", "c5">>)

\* couponIds sent to the session route: the five coupons, four ids, six ids,
\* none, and a string of five characters
CouponLists ==
  {KnownCoupons,
   CouponArray(<<"c1", "c2", "c3", "c4">>),
   CouponArray(<<"c1", "c2", "c3", "c4", "c5", "c1">>),
   NoCoupons,
   [present |-> TRUE, isArray |-> FALSE, items |-> <<"c", "1", "c", "2", "c">>]}

\* couponIds of the sessions that are played
GameCouponLists == {KnownCoupons, ForeignCoupons}

\* the input of a play body: absent are the fields it does not hold as numbers
PlayBody(offset, shot, absent) ==
  [offset |-> offset, angle |-> shot.angle, anglePhi |-> shot.anglePhi,
   power |-> shot.power, absent |-> absent]

\* the bodies sent to the play route: the shot with a timestamp offset from
\* the server clock by nothing, by the window and by just over it in both
\* directions, an over-powered shot, the shot without a timestamp, and the
\* shot without anglePhi
PlayBodies ==
  {PlayBody(off, sh, {}) :
     off \in {0, DEFAULT_SECURITY_CONFIG.replayProtectionWindowMs,
              -DEFAULT_SECURITY_CONFIG.replayProtectionWindowMs - 1,
              DEFAULT_SECURITY_CONFIG.replayProtectionWindowMs + 1},
     sh \in Shots}
  \cup {PlayBody(0, [angle |-> 0, anglePhi |-> 0, power |-> 1001], {})}
  \cup {PlayBody(0, sh, {"timestamp"}) : sh \in Shots}
  \cup {PlayBody(0, sh, {"anglePhi"}) : sh \in Shots}

SessionIds == 1..MaxSessions
\* the session ids that play requests address
PlayTargets == {1, 2}

VARIABLES now, ticks, lastSweep, sessions, nextSid,
          ipSessions, recentPlays, suspiciousActivity,
          inflight, plays, lastResp, allowedAt, evaluations

serverVars == <<now, ticks, lastSweep, sessions, nextSid,
                ipSessions, recentPlays, suspiciousActivity,
                inflight, plays, lastResp, allowedAt, evaluations>>

NoObservation ==
  [exists |-> FALSE, expired |-> FALSE, used |-> FALSE, playCount |-> 0,
   outside |-> FALSE, burst |-> FALSE, registered |-> 0, stored |-> 0]

NoResponse ==
  [route |-> "none", status |-> 0, error |-> "", sessionId |-> 0, clientIP |-> "",
   offset |-> 0, absent |-> {}, simulated |-> FALSE, outcome |-> "", coupon |-> "",
   couponIds |-> NoCoupons, pre |-> NoObservation]

ServerInit ==
  /\ now = 0
  /\ ticks = 0
  /\ lastSweep = 0
  /\ sessions = <<>>
  /\ nextSid = 1
  /\ ipSessions = [ip \in IPs |-> <<>>]
  /\ recentPlays = [id \in SessionIds |-> <<>>]
  /\ suspiciousActivity = [ip \in IPs |-> 0]
  /\ inflight = {}
  /\ plays = 0
  /\ lastResp = NoResponse
  /\ allowedAt = [id \in SessionIds |-> {}]
  /\ evaluations = {}

\* the clock advances
Tick(d) ==
  /\ ticks < MaxTicks
  /\ now' = now + d
  /\ ticks' = ticks + 1
  /\ UNCHANGED <<lastSweep, sessions, nextSid, ipSessions, recentPlays,
                 suspiciousActivity, inflight, plays, lastResp, allowedAt, evaluations>>

\* the setInterval callback of the session store
Sweep ==
  /\ now - lastSweep >= SweepIntervalMs
  /\ lastSweep' = now
  /\ sessions' = SweepSessions(sessions, now)
  /\ UNCHANGED <<now, ticks, nextSid, ipSessions, recentPlays,
                 suspiciousActivity, inflight, plays, lastResp, allowedAt, evaluations>>

\* security.cleanup()
SecurityCleanup ==
  /\ recentPlays' = cleanup(recentPlays, now)
  /\ UNCHANGED <<now, ticks, lastSweep, sessions, nextSid, ipSessions,
                 suspiciousActivity, inflight, plays, lastResp, allowedAt, evaluations>>

\* POST of the session route, the whole handler
CreateSession(clientIP, couponIds, seed) ==
  LET securityCheck == validateSessionCreation(ipSessions, clientIP)
      seen == [NoObservation EXCEPT
                 !.registered = Len(ipSessions[clientIP]),
                 !.stored = Cardinality({i \in DOMAIN sessions :
                                           sessions[i].clientIP = clientIP})]
      resp == [NoResponse EXCEPT !.route = "session", !.clientIP = clientIP,
                                 !.couponIds = couponIds, !.pre = seen]
  IN /\ (ValidCouponIds(couponIds) /\ securityCheck.allowed) => nextSid <= MaxSessions
     /\ IF ~ValidCouponIds(couponIds)
        THEN /\ lastResp' = [resp EXCEPT !.status = 400,
                                         !.error = "Must provide exactly 5 coupon IDs"]
             /\ UNCHANGED <<sessions, nextSid, ipSessions>>
        ELSE IF ~securityCheck.allowed
        THEN /\ lastResp' = [resp EXCEPT !.status = 429, !.error = securityCheck.reason]
             /\ UNCHANGED <<sessions, nextSid, ipSessions>>
        ELSE /\ sessions' =
                  [id \in DOMAIN sessions \cup {nextSid} |->
                     IF id = nextSid
                     THEN [seed |-> seed, couponIds |-> couponIds.items,
                           expiresAt |-> now + SessionLifetimeMs, used |-> FALSE,
                           createdAt |-> now, clientIP |-> clientIP,
                           playCount |-> 0, lastPlayAt |-> -1]
                     ELSE sessions[id]]
             /\ ipSessions' = registerSession(ipSessions, clientIP, nextSid)
             /\ nextSid' = nextSid + 1
             /\ lastResp' = [resp EXCEPT !.status = 200, !.sessionId = nextSid]
     /\ UNCHANGED <<now, ticks, lastSweep, recentPlays, suspiciousActivity,
                    inflight, plays, allowedAt, evaluations>>

\* POST of the play route up to "await request.json()": the request is in
\* the server and its client address is read; its body is still to be read
ReceivePlay(clientIP) ==
  /\ plays < MaxPlays
  /\ Cardinality(inflight) < MaxInflight
  /\ plays' = plays + 1
  /\ inflight' = inflight \cup {[id |-> plays + 1, clientIP |-> clientIP]}
  /\ UNCHANGED <<now, ticks, lastSweep, sessions, nextSid, ipSessions,
                 recentPlays, suspiciousActivity, lastResp, allowedAt, evaluations>>

\* the parsed body of a play request: the client's timestamp is its offset
\* from the server clock at the time the body is read
PlayRequest(sessionId, body, nowMs) ==
  [sessionId |-> sessionId,
   timestamp |-> IF "timestamp" \in body.absent THEN NaN ELSE Num(nowMs + body.offset),
   angle |-> body.angle, anglePhi |-> body.anglePhi, power |-> body.power,
   missing |-> body.absent \cap {"angle", "anglePhi", "power"}]

\* POST of the play route from the parsed body to the response: no await in
\* between, so it runs without interleaving.  createSimulator() selects any
\* of the courses.  (The record of evaluations is kept by the observers below.)
HandlePlay(conn, sid, body) ==
  LET req == PlayRequest(sid, body, now)
      exists == sid \in DOMAIN sessions
      seen == [NoObservation EXCEPT
                 !.exists = exists,
                 !.expired = exists /\ now > sessions[sid].expiresAt,
                 !.used = exists /\ sessions[sid].used,
                 !.playCount = IF exists THEN sessions[sid].playCount ELSE 0,
                 !.outside = body.offset > DEFAULT_SECURITY_CONFIG.replayProtectionWindowMs
                             \/ -body.offset > DEFAULT_SECURITY_CONFIG.replayProtectionWindowMs,
                 !.burst = \E t \in allowedAt[sid] : now - t < RecentWindowMs]
      rej == PlayReject(sessions, recentPlays, req, now)
      resp == [NoResponse EXCEPT !.route = "play", !.clientIP = conn.clientIP,
                                 !.sessionId = sid, !.offset = body.offset,
                                 !.absent = body.absent, !.pre = seen,
                                 !.status = rej.status, !.error = rej.error]
      shot == [angle |-> req.angle, anglePhi |-> req.anglePhi, power |-> req.power]
  IN /\ conn \in inflight
     /\ inflight' = inflight \ {conn}
     /\ recentPlays' = rej.recentPlays
     /\ suspiciousActivity' =
          IF rej.status = 429
          THEN reportSuspiciousActivity(suspiciousActivity, conn.clientIP)
          ELSE suspiciousActivity
     /\ allowedAt' =
          IF rej.status \in {200, 400}
          THEN [allowedAt EXCEPT ![sid] = @ \cup {now}] ELSE allowedAt
     /\ IF rej.status = 200
        THEN \E outcome \in {PlayResults[config][sessions[sid].seed][shot].outcome :
                                config \in CourseConfigs} :
               /\ sessions' = sessionManagerUpdate(sessions, sid,
                                SessionAfterPlay(sessions[sid], outcome, now))
               /\ lastResp' = [resp EXCEPT
                                 !.simulated = TRUE, !.outcome = outcome,
                                 !.coupon = IF outcome = "win"
                                            THEN AwardedCoupon(sessions[sid]) ELSE ""]
        ELSE /\ sessions' = sessions
             /\ lastResp' = resp
     /\ UNCHANGED <<now, ticks, lastSweep, nextSid, ipSessions, plays>>

\* the outcomes seen so far, by who computed them, for which seed and shot
Evaluation(by, seed, shot, outcome) ==
  [by |-> by, seed |-> seed, shot |-> shot, outcome |-> outcome]

\* a play request handled, and the outcome it returned put on record
ObservedPlay(conn, sid, body) ==
  /\ HandlePlay(conn, sid, body)
  /\ evaluations' =
       IF lastResp'.simulated
       THEN evaluations \cup
              {Evaluation("server", sessions[sid].seed,
                          [angle |-> body.angle, anglePhi |-> body.anglePhi,
                           power |-> body.power],
                          lastResp'.outcome)}
       ELSE evaluations

\* handleShoot of the play page up to the fetch: the local simulation, with
\* the seed of the page's session, on the simulator the page made with
\* createSimulator() when it mounted (any of the courses)
ClientSimulate(sid, shot) ==
  /\ sid \in DOMAIN sessions
  /\ \E outcome \in {PlayResults[config][sessions[sid].seed][shot].outcome :
                         config \in CourseConfigs} :
       evaluations' = evaluations \cup
                        {Evaluation("client", sessions[sid].seed, shot, outcome)}
  /\ UNCHANGED <<now, ticks, lastSweep, sessions, nextSid, ipSessions, recentPlays,
                 suspiciousActivity, inflight, plays, lastResp, allowedAt>>

(***************************************************************************)
(* State of one SeededRNG object and of its caller's record of it; state   *)
(* of the session store as its callers see it: the objects they hold and   *)
(* the Map from session id to object                                       *)
(***************************************************************************)
VARIABLES rngMade, rngThisSeed, rngCtor, rngGiven, rngOuts, rngResets

rngVars == <<rngMade, rngThisSeed, rngCtor, rngGiven, rngOuts, rngResets>>

VARIABLES storeHeap, storeMap, storePassed, storeExpect, storeUpdates

storeVars == <<storeHeap, storeMap, storePassed, storeExpect, storeUpdates>>

(***************************************************************************)
(* State of one GolfPhysicsSimulator instance and of the simulate() call   *)
(* in progress on it                                                       *)
(***************************************************************************)
MaxCalls == 2

\* the configuration of every course, and a practice green: the default
\* configuration with the hole 3 cm from the tee and three seconds of play
SimConfigs ==
  CourseConfigs \cup
  {createSimulatorWith([holePosition |-> [x |-> 3000, y |-> 0], maxSimTime |-> 3])}

SimInput(angle, anglePhi, power, seed, seedFrac) ==
  [angle |-> angle, anglePhi |-> anglePhi, power |-> power, seed |-> seed,
   seedFrac |-> seedFrac]

\* a drive along the ground, a short putt, a ball that is not struck, a lob,
\* chips straight up and straight down, a ball aimed beyond the side limit;
\* and inputs out of range: power above 1 and below 0, angle beyond pi/2 on
\* either side, a negative seed, a seed of 7.5
SimInputs ==
  {SimInput(0, 0, 1000, 7, 0),
   SimInput(0, 0, 20, 12345, 0),
   SimInput(0, 0, 0, 7, 0),
   SimInput(75, 0, 1000, 7, 0),
   SimInput(90, 0, 20, 7, 0),
   SimInput(-90, 0, 20, 7, 0),
   SimInput(0, 105, 0, 7, 0),
   SimInput(0, 0, 1001, 7, 0),
   SimInput(0, 0, -1, 7, 0),
   SimInput(105, 0, 1000, 7, 0),
   SimInput(-105, 0, 1000, 7, 0),
   SimInput(0, 0, 1000, -1, 0),
   SimInput(0, 0, 1000, 7, 500)}

VARIABLES simPhase, simConfig, simRng, simInput, simLoop, simReturned, simThrown, simCalls

simVars == <<simPhase, simConfig, simRng, simInput, simLoop, simReturned, simThrown, simCalls>>

(***************************************************************************)
(* State of the play page: the fields of the game store it uses, the fetch *)
(* of handleShoot that is under way, and the timers it has set            *)
(***************************************************************************)
VARIABLES gameState, pageSessionId, pageSessionSeed, isLoading, pageError,
          gameResult, localResult, pageFetch, pageTimers

pageVars == <<gameState, pageSessionId, pageSessionSeed, isLoading, pageError,
              gameResult, localResult, pageFetch, pageTimers>>

(***************************************************************************)
(* State of the wallet: the coupons stored under "golf-wallet" in          *)
(* localStorage, and the browser's clock                                   *)
(***************************************************************************)
VARIABLES walletStored, walletClock, walletAdded

walletVars == <<walletStored, walletClock, walletAdded>>

(***************************************************************************)
(* The previews asked of PhysicsUtils: the last arc of                     *)
(* calculateTrajectoryPreview, and the calls of                            *)
(* calculate3DTrajectoryPreview made so far                                *)
(***************************************************************************)
VARIABLES previewArc, previewPaths

previewVars == <<previewArc, previewPaths>>

clientVars == <<pageVars, walletVars, previewVars>>

vars == <<serverVars, simVars, rngVars, storeVars, clientVars>>

SimInit ==
  /\ simPhase = "none"
  /\ simConfig = <<>>
  /\ simRng = FreshRng
  /\ simInput = <<>>
  /\ simLoop = <<>>
  /\ simReturned = {}
  /\ simThrown = {}
  /\ simCalls = 0

\* new GolfPhysicsSimulator(config)
SimConstruct(config) ==
  /\ simPhase \in {"none", "idle"}
  /\ simPhase = "idle" => simRng # FreshRng
  /\ simPhase' = "idle"
  /\ simConfig' = IF simPhase = "none" THEN config ELSE simConfig
  /\ simRng' = FreshRng
  /\ UNCHANGED <<simInput, simLoop, simReturned, simThrown, simCalls, serverVars, rngVars, storeVars, clientVars>>

\* simulate(input) up to the loop: validation (which throws), the reset of the
\* RNG, the wind and spin draws, the push of the initial state
SimCall(input) ==
  /\ simPhase = "idle"
  /\ simCalls < MaxCalls
  /\ simCalls' = simCalls + 1
  /\ IF ~validateInput(input).isValid
     THEN /\ UNCHANGED <<simPhase, simRng, simInput, simLoop>>
          /\ simThrown' = simThrown \cup
                            {[input |-> input, rngBefore |-> simRng, rngAfter |-> simRng',
                              phaseAfter |-> simPhase']}
     ELSE LET b == SimBegin(simConfig, simRng, input)
          IN /\ simPhase' = "loop"
             /\ simRng' = b.rng
             /\ simInput' = input
             /\ simLoop' = [b EXCEPT !.running = LoopGuard(simConfig, b.currentState)]
             /\ UNCHANGED simThrown
  /\ UNCHANGED <<simConfig, simReturned, serverVars, rngVars, storeVars, clientVars>>

\* one iteration of the while loop
SimIterate ==
  /\ simPhase = "loop"
  /\ simLoop.running
  /\ simLoop' = SimStep(simConfig, simLoop)
  /\ UNCHANGED <<simPhase, simConfig, simRng, simInput, simReturned, simThrown,
                 simCalls, serverVars, rngVars, storeVars, clientVars>>

\* the loop is left and simulate returns its result
SimReturn ==
  /\ simPhase = "loop"
  /\ ~simLoop.running
  /\ simReturned' = simReturned \cup {<<simInput, SimResult(simLoop)>>}
  /\ simPhase' = "idle"
  /\ simLoop' = <<>>
  /\ simInput' = <<>>
  /\ UNCHANGED <<simConfig, simRng, simThrown, simCalls, serverVars, rngVars, storeVars, clientVars>>

(***************************************************************************)
(* A SeededRNG object in use.  this.seed is kept modulo 2^32: next() reads *)
(* it only through 32-bit operators.  rngCtor is the constructor argument, *)
(* rngGiven the seed of the last reset(seed) or else the constructor       *)
(* argument, rngOuts the values returned since the construction or the     *)
(* last reset                                                              *)
(***************************************************************************)
MaxDraws == 5
MaxResets == 2

RngSeeds == {12345, 54321, 200}

RngInit ==
  /\ rngMade = FALSE
  /\ rngThisSeed = ToWord(0)
  /\ rngCtor = 0
  /\ rngGiven = 0
  /\ rngOuts = <<>>
  /\ rngResets = 0

\* reset() without an argument: this.seed = undefined ?? this.seed
RngResetNoArg(seed) == seed

\* new SeededRNG(seed)
RngConstruct(seed) ==
  /\ ~rngMade
  /\ rngMade' = TRUE
  /\ rngThisSeed' = ToWord(seed)
  /\ rngCtor' = seed
  /\ rngGiven' = seed
  /\ rngOuts' = <<>>
  /\ UNCHANGED <<rngResets, serverVars, simVars, storeVars, clientVars>>

\* next()
RngCallNext ==
  /\ rngMade
  /\ Len(rngOuts) < MaxDraws
  /\ rngThisSeed' = RngNext(rngThisSeed).seed
  /\ rngOuts' = Append(rngOuts, RngNext(rngThisSeed).out)
  /\ UNCHANGED <<rngMade, rngCtor, rngGiven, rngResets, serverVars, simVars, storeVars, clientVars>>

\* reset(newSeed)
RngCallReset(newSeed) ==
  /\ rngMade
  /\ rngResets < MaxResets
  /\ rngResets' = rngResets + 1
  /\ rngThisSeed' = RngReset(rngThisSeed, newSeed)
  /\ rngGiven' = newSeed
  /\ rngOuts' = <<>>
  /\ UNCHANGED <<rngMade, rngCtor, serverVars, simVars, storeVars, clientVars>>

\* reset()
RngCallResetNoArg ==
  /\ rngMade
  /\ rngResets < MaxResets
  /\ rngResets' = rngResets + 1
  /\ rngThisSeed' = RngResetNoArg(rngThisSeed)
  /\ rngGiven' = rngCtor
  /\ rngOuts' = <<>>
  /\ UNCHANGED <<rngMade, rngCtor, serverVars, simVars, storeVars, clientVars>>

(***************************************************************************)
(* The session store used through sessionManager.  storeHeap holds the     *)
(* session objects the callers have made, by reference 1, 2, ...; storeMap *)
(* is the Map, from session id to the reference it holds (0: no entry).    *)
(* storePassed is each object as it was when it was passed to create(),    *)
(* storeExpect what each stored session should read after the updates      *)
(* made to it                                                              *)
(***************************************************************************)
MaxObjects == 3
MaxUpdates == 2

StoreIds == {"session_1", "session_2"}

\* the sessions callers pass to create()
StoreSessions ==
  {[sessionId |-> id, seed |-> 12345, used |-> FALSE, playCount |-> 0] : id \in StoreIds}

NoSession == [sessionId |-> "", seed |-> 0, used |-> FALSE, playCount |-> 0]

\* the updates callers pass to update(), as the fields they set
StoreUpdateSets ==
  {[field |-> "seed", seed |-> 99999, used |-> FALSE],
   [field |-> "used", seed |-> 0, used |-> TRUE]}

\* Object.assign(session, updates)
ObjectAssign(session, updates) ==
  [session EXCEPT !.seed = IF updates.field = "seed" THEN updates.seed ELSE @,
                  !.used = IF updates.field = "used" THEN updates.used ELSE @]

StoreInit ==
  /\ storeHeap = <<>>
  /\ storeMap = [id \in StoreIds |-> 0]
  /\ storePassed = <<>>
  /\ storeExpect = [id \in StoreIds |-> NoSession]
  /\ storeUpdates = 0

\* a caller makes a session object and passes it to sessionManager.create:
\* sessions.set(session.sessionId, session)
StoreCreate(session) ==
  /\ Len(storeHeap) < MaxObjects
  /\ storeHeap' = Append(storeHeap, session)
  /\ storeMap' = [storeMap EXCEPT ![session.sessionId] = Len(storeHeap) + 1]
  /\ storePassed' = Append(storePassed, session)
  /\ storeExpect' = [storeExpect EXCEPT ![session.sessionId] = session]
  /\ UNCHANGED <<storeUpdates, serverVars, simVars, rngVars, clientVars>>

\* sessionManager.update(sessionId, updates)
StoreUpdate(sessionId, updates) ==
  /\ storeUpdates < MaxUpdates
  /\ storeUpdates' = storeUpdates + 1
  /\ IF storeMap[sessionId] = 0
     THEN UNCHANGED <<storeHeap, storeExpect>>
     ELSE /\ storeHeap' = [storeHeap EXCEPT ![storeMap[sessionId]] = ObjectAssign(@, updates)]
          /\ storeExpect' = [storeExpect EXCEPT ![sessionId] = ObjectAssign(@, updates)]
  /\ UNCHANGED <<storeMap, storePassed, serverVars, simVars, rngVars, clientVars>>

\* sessionManager.delete(sessionId)
StoreDelete(sessionId) ==
  /\ storeMap' = [storeMap EXCEPT ![sessionId] = 0]
  /\ storeExpect' = [storeExpect EXCEPT ![sessionId] = NoSession]
  /\ UNCHANGED <<storeHeap, storePassed, storeUpdates, serverVars, simVars, rngVars, clientVars>>

(***************************************************************************)
(* The play page: handleStartGame, handleShoot and the handlers of the     *)
(* result dialog                                                           *)
(***************************************************************************)
NoFetch == [stage |-> "none", conn |-> [id |-> 0, clientIP |-> ""], sentAt |-> 0,
            shot |-> [angle |-> 0, anglePhi |-> 0, power |-> 0],
            response |-> NoResponse]

\* gameResult and awardedCoupon of the store, null at first
NoResult == [outcome |-> "", coupon |-> ""]

\* the initial state of useGameStore
PageInit ==
  /\ gameState = "selecting"
  /\ pageSessionId = 0
  /\ pageSessionSeed = 0
  /\ isLoading = FALSE
  /\ pageError = ""
  /\ gameResult = NoResult
  /\ localResult = ""
  /\ pageFetch = NoFetch
  /\ pageTimers = {}

\* the body handleShoot sends: { sessionId, input: { angle, power, timestamp } }
\* with the timestamp taken when the request is sent; the input holds no
\* anglePhi
PageBody(shot, sentAt, nowMs) == PlayBody(sentAt - nowMs, shot, {"anglePhi"})

\* handleStartGame, with the session route answering at once
handleStartGame(clientIP, selectedCoupons, seed) ==
  /\ gameState = "selecting" /\ ~isLoading
  /\ IF Len(selectedCoupons.items) # 5
     THEN /\ pageError' = "Please select exactly 5 coupons"
          /\ UNCHANGED <<serverVars, gameState, pageSessionId, pageSessionSeed>>
     ELSE /\ CreateSession(clientIP, selectedCoupons, seed)
          /\ IF lastResp'.status = 200
             THEN /\ pageSessionId' = lastResp'.sessionId
                  /\ pageSessionSeed' = seed
                  /\ gameState' = "playing"
                  /\ pageError' = ""
             ELSE /\ pageError' = lastResp'.error
                  /\ UNCHANGED <<gameState, pageSessionId, pageSessionSeed>>
  /\ UNCHANGED <<isLoading, gameResult, localResult, pageFetch, pageTimers>>

\* handleShoot up to the await of the fetch: the local simulation on the
\* page's simulator (any of the courses), and the request sent to the server
handleShoot(clientIP, shot) ==
  /\ gameState = "playing" /\ ~isLoading
  /\ IF pageSessionId = 0
     THEN /\ pageError' = "No active session"
          /\ UNCHANGED <<serverVars, gameState, isLoading, localResult, pageFetch>>
     ELSE /\ isLoading' = TRUE
          /\ pageError' = ""
          /\ gameState' = "animating"
          /\ localResult' \in {PlayResults[config][pageSessionSeed][shot].outcome :
                                 config \in CourseConfigs}
          /\ ReceivePlay(clientIP)
          /\ pageFetch' = [stage |-> "sent",
                           conn |-> [id |-> plays + 1, clientIP |-> clientIP],
                           sentAt |-> now, shot |-> shot, response |-> NoResponse]
  /\ UNCHANGED <<pageSessionId, pageSessionSeed, gameResult, pageTimers>>

\* the play route handles the page's request and its response travels back
PageServe ==
  /\ pageFetch.stage = "sent"
  /\ HandlePlay(pageFetch.conn, pageSessionId,
                PageBody(pageFetch.shot, pageFetch.sentAt, now))
  /\ pageFetch' = [pageFetch EXCEPT !.stage = "answered", !.response = lastResp']
  /\ UNCHANGED <<evaluations, gameState, pageSessionId, pageSessionSeed, isLoading,
                 pageError, gameResult, localResult, pageTimers>>

\* handleShoot from the response on: the timer of the result, or the error
handleShootResponse ==
  /\ pageFetch.stage = "answered"
  /\ IF pageFetch.response.status = 200
     THEN /\ pageTimers' = pageTimers \cup
                             {[outcome |-> pageFetch.response.outcome,
                               coupon |-> pageFetch.response.coupon]}
          /\ UNCHANGED <<gameState, pageError>>
     ELSE /\ pageError' = pageFetch.response.error
          /\ gameState' = "playing"
          /\ UNCHANGED pageTimers
  /\ isLoading' = FALSE
  /\ pageFetch' = NoFetch
  /\ UNCHANGED <<serverVars, pageSessionId, pageSessionSeed, gameResult, localResult>>

\* the callback of the setTimeout of handleShoot
ShowResult ==
  /\ \E resultData \in pageTimers :
       /\ gameResult' = resultData
       /\ pageTimers' = pageTimers \ {resultData}
  /\ gameState' = "result"
  /\ UNCHANGED <<serverVars, pageSessionId, pageSessionSeed, isLoading, pageError,
                 localResult, pageFetch>>

\* handlePlayAgain: resetGame()
handlePlayAgain ==
  /\ gameState = "result"
  /\ gameState' = "selecting"
  /\ pageSessionId' = 0
  /\ pageSessionSeed' = 0
  /\ gameResult' = NoResult
  /\ pageError' = ""
  /\ UNCHANGED <<serverVars, isLoading, localResult, pageFetch, pageTimers>>

\* handleResultClose
handleResultClose ==
  /\ gameState = "result"
  /\ gameState' = "playing"
  /\ UNCHANGED <<serverVars, pageSessionId, pageSessionSeed, isLoading, pageError,
                 gameResult, localResult, pageFetch, pageTimers>>

(***************************************************************************)
(* WalletManager                                                           *)
(***************************************************************************)
MaxWallet == 3

MaxWalletTime == 3

\* the coupons that are awarded: a fixed one and a percentage one, with the
\* time of expiry
AwardedCoupons ==
  {[type |-> ty, value |-> 10, minPurchase |-> 0, expiry |-> e] :
     ty \in {"fixed", "percentage"}, e \in 1..MaxWalletTime}

WalletInit ==
  /\ walletStored = <<>>
  /\ walletClock = 0
  /\ walletAdded = 0

\* the browser's clock advances
WalletTick ==
  /\ walletClock < MaxWalletTime
  /\ walletClock' = walletClock + 1
  /\ UNCHANGED <<walletStored, walletAdded>>

\* WalletManager.addCoupon
addCoupon(coupon) ==
  /\ walletAdded < MaxWallet
  /\ walletStored' = Append(walletStored,
                            [coupon |-> coupon, used |-> FALSE, id |-> walletAdded + 1])
  /\ walletAdded' = walletAdded + 1
  /\ UNCHANGED walletClock

\* WalletManager.markAsUsed: nothing for a coupon that is not stored or is
\* already used
markAsUsed(couponId) ==
  /\ walletStored' =
       [i \in DOMAIN walletStored |->
          IF walletStored[i].id = couponId /\ ~walletStored[i].used
          THEN [walletStored[i] EXCEPT !.used = TRUE] ELSE walletStored[i]]
  /\ UNCHANGED <<walletClock, walletAdded>>

\* WalletManager.deleteCoupon
deleteCoupon(couponId) ==
  /\ walletStored' = SelectSeq(walletStored, LAMBDA c : c.id # couponId)
  /\ UNCHANGED <<walletClock, walletAdded>>

\* the savings getStats counts for a used coupon
Savings(coupon) ==
  IF coupon.type = "fixed" THEN coupon.value
  ELSE IF coupon.type = "percentage"
    THEN ((IF coupon.minPurchase # 0 THEN coupon.minPurchase ELSE 50) * coupon.value) \div 100
  ELSE 0

RECURSIVE SumSavings(_)
SumSavings(coupons) ==
  IF Len(coupons) = 0 THEN 0
  ELSE (IF Head(coupons).used THEN Savings(Head(coupons).coupon) ELSE 0)
       + SumSavings(Tail(coupons))

\* WalletManager.getStats on the stored coupons at time nowMs
getStats(coupons, nowMs) ==
  LET expiredCount == Cardinality({i \in DOMAIN coupons : coupons[i].coupon.expiry < nowMs})
      usedCount == Cardinality({i \in DOMAIN coupons : coupons[i].used})
  IN [totalCoupons |-> Len(coupons),
      usedCoupons |-> usedCount,
      expiredCoupons |-> expiredCount,
      activeCoupons |-> Len(coupons) - usedCount - expiredCount,
      totalSavings |-> SumSavings(coupons)]

(***************************************************************************)
(* PhysicsUtils: the trajectory previews                                   *)
(***************************************************************************)
MaxPreviews == 2

\* calculateTrajectoryPreview: the points with y >= 0 among those at the
\* times i * timeStep, i = 0..steps.  With steps = 0 the time step is 0/0 or
\* x/0, the only time 0 * timeStep is NaN, and no point passes y >= 0.
calculateTrajectoryPreview(angle, power, maxVelocity, gravity, steps) ==
  LET initialSpeed == MulDiv(maxVelocity, power, 1000)
      vx == MulDiv(initialSpeed, CosDeg(angle), Scale)
      vy == MulDiv(initialSpeed, SinDeg(angle), Scale)
      flightTime == MulDiv(2 * vy, Scale, gravity)
      timeStep == IF flightTime >= 0 THEN RoundDiv(flightTime, steps)
                  ELSE -RoundDiv(-flightTime, steps)
      point(i) == LET t == i * timeStep
                  IN [x |-> MulDiv(vx, t, Scale),
                      y |-> MulDiv(vy, t, Scale)
                            - MulDiv(gravity, MulDiv(t, t, Scale), 2 * Scale)]
      all == [i \in 1..(steps + 1) |-> point(i - 1)]
  IN IF steps = 0 THEN <<>> ELSE SelectSeq(all, LAMBDA pt : pt.y >= 0)

\* calculate3DTrajectoryPreview up to its loop: the wind, from three draws of
\* new SeededRNG(0): its angle, its second angle, and its magnitude below
\* the windMaxMagnitude of DEFAULT_PHYSICS_CONFIG.  None of the arguments
\* (angle, anglePhi, power, maxVelocity, gravity, ...) enters it.
PreviewWind(maxVelocity, gravity) ==
  LET rng == ToWord(0)
      windAngle == RngNext(rng)
      windAnglePhi == RngNext(windAngle.seed)
      windMagnitude == RngRange(windAnglePhi.seed, 0, DEFAULT_PHYSICS_CONFIG.windMaxMagnitude)
      level == MulDiv(windMagnitude.value, CosTurn(windAngle.out[1]), Scale)
  IN [magnitude |-> windMagnitude.value,
      windEffect |-> [x |-> MulDiv(level, CosTurn(windAnglePhi.out[1]), Scale),
                      y |-> MulDiv(windMagnitude.value, SinTurn(windAngle.out[1]), Scale),
                      z |-> MulDiv(level, SinTurn(windAnglePhi.out[1]), Scale)]]

\* launch angles and powers of the previews, and the numbers of steps
PreviewAngles == {-45, 0, 45, 90}

PreviewPowers == {0, 500, 1000}

PreviewSteps == {0, 1, 30}

\* seeds of the courses whose preview is shown
PreviewSeeds == {100, 200}

PreviewInit ==
  /\ previewArc = [called |-> FALSE, angle |-> 0, power |-> 0, steps |-> 0, points |-> <<>>]
  /\ previewPaths = {}

\* a call of calculateTrajectoryPreview(angle, power, 30, 9.81, steps)
CallPreview(angle, power, steps) ==
  /\ previewArc' = [called |-> TRUE, angle |-> angle, power |-> power, steps |-> steps,
                    points |-> calculateTrajectoryPreview(angle, power, 30 * Scale,
                                                          981000, steps)]
  /\ UNCHANGED previewPaths

\* the call of GameControls and of the tests,
\* calculate3DTrajectoryPreview(angle, anglePhi, power, config, seed): config
\* is taken for maxVelocity and seed for gravity
CallPreview3D(config, seed) ==
  /\ Cardinality(previewPaths) < MaxPreviews
  /\ previewPaths' = previewPaths \cup
                       {[config |-> config, seed |-> seed,
                         wind |-> PreviewWind(config, seed)]}
  /\ UNCHANGED previewArc

(***************************************************************************)
(* Specifications                                                          *)
(***************************************************************************)
Init == ServerInit /\ SimInit /\ RngInit /\ StoreInit /\ PageInit /\ WalletInit /\ PreviewInit

ClockNext ==
  \/ \E d \in Deltas : Tick(d) /\ UNCHANGED <<simVars, rngVars, storeVars, clientVars>>
  \/ Sweep /\ UNCHANGED <<simVars, rngVars, storeVars, clientVars>>
  \/ SecurityCleanup /\ UNCHANGED <<simVars, rngVars, storeVars, clientVars>>

\* the session route and the clock
SessionNext ==
  \/ ClockNext
  \/ \E ip \in IPs, couponIds \in CouponLists, seed \in Seeds :
       CreateSession(ip, couponIds, seed) /\ UNCHANGED <<simVars, rngVars, storeVars, clientVars>>

SessionSpec == Init /\ [][SessionNext]_vars

\* the play route and the clock, with the sessions that plays address
PlayNext ==
  \/ ClockNext
  \/ \E ip \in PlayIPs, couponIds \in {c \in CouponLists : ValidCouponIds(c)}, seed \in Seeds :
       nextSid \in PlayTargets /\ CreateSession(ip, couponIds, seed) /\ UNCHANGED <<simVars, rngVars, storeVars, clientVars>>
  \/ \E ip \in PlayIPs : ReceivePlay(ip) /\ UNCHANGED <<simVars, rngVars, storeVars, clientVars>>
  \/ \E conn \in inflight, sid \in PlayTargets, body \in PlayBodies :
       HandlePlay(conn, sid, body) /\ UNCHANGED evaluations /\ UNCHANGED <<simVars, rngVars, storeVars, clientVars>>

PlaySpec == Init /\ [][PlayNext]_vars

\* the game as the play page plays it: sessions with any five coupon ids,
\* shots simulated by the page and by the play route, with timestamps of the
\* server clock
GameNext ==
  \/ ClockNext
  \/ \E ip \in PlayIPs, couponIds \in GameCouponLists, seed \in Seeds :
       nextSid \in PlayTargets /\ CreateSession(ip, couponIds, seed) /\ UNCHANGED <<simVars, rngVars, storeVars, clientVars>>
  \/ \E ip \in PlayIPs : ReceivePlay(ip) /\ UNCHANGED <<simVars, rngVars, storeVars, clientVars>>
  \/ \E conn \in inflight, sid \in PlayTargets, body \in {b \in PlayBodies : b.offset = 0} :
       ObservedPlay(conn, sid, body) /\ UNCHANGED <<simVars, rngVars, storeVars, clientVars>>
  \/ \E sid \in PlayTargets, shot \in Shots :
       ClientSimulate(sid, shot) /\ UNCHANGED <<simVars, rngVars, storeVars, clientVars>>

GameSpec == Init /\ [][GameNext]_vars

Next == SessionNext \/ PlayNext \/ GameNext

Spec == Init /\ [][Next]_vars

\* the play page against the server: one player, one address
PageNext ==
  \/ ClockNext
  \/ \E couponIds \in {KnownCoupons, CouponArray(<<"c1", "c2", "c3", "c4">>)}, seed \in Seeds :
       handleStartGame("ip1", couponIds, seed) /\ UNCHANGED <<simVars, rngVars, storeVars, walletVars, previewVars>>
  \/ \E shot \in Shots : handleShoot("ip1", shot) /\ UNCHANGED <<simVars, rngVars, storeVars, walletVars, previewVars>>
  \/ PageServe /\ UNCHANGED <<simVars, rngVars, storeVars, walletVars, previewVars>>
  \/ handleShootResponse /\ UNCHANGED <<simVars, rngVars, storeVars, walletVars, previewVars>>

PageSpec == Init /\ [][PageNext]_vars

\* the page with the timer of the result and the handlers of the result
\* dialog, which no response of the play route to the page enables
PageResultNext ==
  \/ PageNext
  \/ ShowResult /\ UNCHANGED <<simVars, rngVars, storeVars, walletVars, previewVars>>
  \/ handlePlayAgain /\ UNCHANGED <<simVars, rngVars, storeVars, walletVars, previewVars>>
  \/ handleResultClose /\ UNCHANGED <<simVars, rngVars, storeVars, walletVars, previewVars>>

PageResultSpec == Init /\ [][PageResultNext]_vars

\* the wallet page: coupons added, used and deleted while time passes
WalletNext ==
  \/ WalletTick /\ UNCHANGED <<serverVars, simVars, rngVars, storeVars, pageVars, previewVars>>
  \/ \E coupon \in AwardedCoupons :
       addCoupon(coupon) /\ UNCHANGED <<serverVars, simVars, rngVars, storeVars, pageVars, previewVars>>
  \/ \E couponId \in 1..MaxWallet :
       markAsUsed(couponId) /\ UNCHANGED <<serverVars, simVars, rngVars, storeVars, pageVars, previewVars>>
  \/ \E couponId \in 1..MaxWallet :
       deleteCoupon(couponId) /\ UNCHANGED <<serverVars, simVars, rngVars, storeVars, pageVars, previewVars>>

WalletSpec == Init /\ [][WalletNext]_vars

\* the previews drawn while the player aims
PreviewNext ==
  \/ \E angle \in PreviewAngles, power \in PreviewPowers, steps \in PreviewSteps :
       CallPreview(angle, power, steps)
         /\ UNCHANGED <<serverVars, simVars, rngVars, storeVars, pageVars, walletVars>>
  \/ \E config \in CourseConfigs, seed \in PreviewSeeds :
       CallPreview3D(config, seed)
         /\ UNCHANGED <<serverVars, simVars, rngVars, storeVars, pageVars, walletVars>>

PreviewSpec == Init /\ [][PreviewNext]_vars

SimNext ==
  \/ \E config \in SimConfigs : SimConstruct(config)
  \/ \E input \in SimInputs : SimCall(input)
  \/ SimIterate
  \/ SimReturn

SimSpec == Init /\ [][SimNext]_vars

RngObjectNext ==
  \/ \E seed \in RngSeeds : RngConstruct(seed)
  \/ RngCallNext
  \/ \E seed \in RngSeeds : RngCallReset(seed)
  \/ RngCallResetNoArg

RngSpec == Init /\ [][RngObjectNext]_vars

StoreNext ==
  \/ \E session \in StoreSessions : StoreCreate(session)
  \/ \E sessionId \in StoreIds, updates \in StoreUpdateSets : StoreUpdate(sessionId, updates)
  \/ \E sessionId \in StoreIds : StoreDelete(sessionId)

StoreSpec == Init /\ [][StoreNext]_vars

(***************************************************************************)
(* Properties of the play route                                            *)
(***************************************************************************)
\* the last response came from the play route
PlayAnswered == lastResp.route = "play"

\* the last play request got as far as security.validatePlay
ReachedValidatePlay ==
  PlayAnswered /\ lastResp.pre.exists /\ ~lastResp.pre.expired /\ ~lastResp.pre.used

\* C1: a session is single-use: once a play has been accepted for a session
\* (its playCount is at least 1) the session is marked used, whatever the
\* outcome, and any later play request for it, while it is stored and has not
\* expired, is answered 409 "Session already used".
C1_SingleUse ==
  /\ \A sid \in DOMAIN sessions : sessions[sid].playCount >= 1 => sessions[sid].used
  /\ (PlayAnswered /\ lastResp.pre.exists /\ ~lastResp.pre.expired
        /\ lastResp.pre.playCount >= 1)
       => (lastResp.status = 409 /\ lastResp.error = "Session already used")

\* C2: however play requests against one session interleave, at most one of
\* them is accepted: the playCount of a session never exceeds
\* maxPlaysPerSession (1), and no play is accepted on a session that has
\* already been played.
C2_OnePlayPerSession ==
  /\ \A sid \in DOMAIN sessions :
       sessions[sid].playCount <= DEFAULT_SECURITY_CONFIG.maxPlaysPerSession
  /\ (PlayAnswered /\ lastResp.simulated) => lastResp.pre.playCount = 0

\* C3: the play route answers by the first failing check in the order
\* exists (404), not expired (410), not used (409), timestamp window then
\* burst window (429), and the simulator runs only when all of them, and the
\* input checks after them, have passed.
C3_CheckOrder ==
  PlayAnswered =>
    /\ ~lastResp.pre.exists
         <=> (lastResp.status = 404 /\ lastResp.error = "Invalid session")
    /\ (lastResp.pre.exists /\ lastResp.pre.expired)
         <=> (lastResp.status = 410 /\ lastResp.error = "Session expired")
    /\ (lastResp.pre.exists /\ ~lastResp.pre.expired /\ lastResp.pre.used)
         <=> (lastResp.status = 409 /\ lastResp.error = "Session already used")
    /\ (ReachedValidatePlay /\ lastResp.pre.outside)
         <=> (lastResp.status = 429
              /\ lastResp.error = "Timestamp outside acceptable window")
    /\ (ReachedValidatePlay /\ ~lastResp.pre.outside /\ lastResp.pre.burst)
         <=> (lastResp.status = 429
              /\ lastResp.error = "Too many plays in short time window")
    /\ lastResp.simulated =>
         /\ ReachedValidatePlay /\ ~lastResp.pre.outside /\ ~lastResp.pre.burst
         /\ lastResp.status = 200
         /\ lastResp.outcome \in {"win", "lose"}
    /\ lastResp.status = 200 => lastResp.simulated

\* a session that is both used and expired is answered 410, by the earlier check
C3_Witness ==
  PlayAnswered /\ lastResp.pre.used /\ lastResp.pre.expired /\ lastResp.status = 410

\* offsets of a timestamp from the server clock around both ends of the window
WindowOffsets ==
  {0, 1, -1, DEFAULT_SECURITY_CONFIG.replayProtectionWindowMs,
   -DEFAULT_SECURITY_CONFIG.replayProtectionWindowMs,
   DEFAULT_SECURITY_CONFIG.replayProtectionWindowMs + 1,
   -DEFAULT_SECURITY_CONFIG.replayProtectionWindowMs - 1}

\* C4: validatePlay rejects with "Timestamp outside acceptable window" exactly
\* the timestamps more than 60000 ms from the server clock, before it or after
\* it; such a call registers nothing; and the play route answers 429 with that
\* reason exactly for such timestamps among the requests that reach validatePlay.
C4_ReplayWindow ==
  /\ \A sid \in SessionIds, off \in WindowOffsets :
       LET v == validatePlay(recentPlays, sid, Num(now + off), now)
           far == off > 60000 \/ off < -60000
       IN /\ (v.reason = "Timestamp outside acceptable window") <=> far
          /\ far => (~v.allowed /\ v.recentPlays = recentPlays)
  /\ ReachedValidatePlay =>
       ((lastResp.error = "Timestamp outside acceptable window")
          <=> (lastResp.offset > 60000 \/ lastResp.offset < -60000))

\* a play with a timestamp in the future beyond the window has been rejected
C4_Witness ==
  /\ ReachedValidatePlay
  /\ lastResp.offset > 60000
  /\ lastResp.status = 429
  /\ lastResp.error = "Timestamp outside acceptable window"

\* C5: validatePlay with a timestamp inside the window rejects with "Too many
\* plays in short time window" exactly when a play of the same session was
\* allowed less than 1000 ms ago: rejected calls do not count, a call at or
\* after 1000 ms is allowed again, and plays of other sessions do not count.
C5_BurstWindow ==
  /\ \A sid \in SessionIds :
       LET v == validatePlay(recentPlays, sid, Num(now), now)
           recent == \E t \in allowedAt[sid] : now < t + 1000
       IN /\ (v.reason = "Too many plays in short time window") <=> recent
          /\ v.allowed <=> ~recent
          /\ ~v.allowed => v.recentPlays = recentPlays
  /\ (ReachedValidatePlay /\ ~lastResp.pre.outside) =>
       ((lastResp.error = "Too many plays in short time window") <=> lastResp.pre.burst)

\* a play has been rejected for the burst window while the other session,
\* never played, would still be allowed
C5_Witness ==
  /\ ReachedValidatePlay
  /\ lastResp.error = "Too many plays in short time window"
  /\ \E other \in SessionIds \ {lastResp.sessionId} :
       /\ other \in DOMAIN sessions
       /\ validatePlay(recentPlays, other, Num(now), now).allowed

(***************************************************************************)
(* Properties of the session route                                         *)
(***************************************************************************)
\* the last response came from the session route, past the coupon-list check
SessionAnswered == lastResp.route = "session" /\ lastResp.status # 400

\* C6: a session-creation request is refused with 429 "Too many active
\* sessions from this IP" exactly when its client address already has 5
\* registered sessions, so no address ever has more than 5 registered
\* sessions, and the sessions of other addresses do not count.
C6_SessionLimit ==
  /\ \A ip \in IPs : Len(ipSessions[ip]) <= 5
  /\ SessionAnswered =>
       /\ (lastResp.status = 429
           /\ lastResp.error = "Too many active sessions from this IP")
            <=> lastResp.pre.registered >= 5
       /\ lastResp.status = 200 <=> lastResp.pre.registered < 5

\* an address with 5 registered sessions has been refused while the other
\* address has a session
C6_Witness ==
  /\ SessionAnswered
  /\ lastResp.status = 429
  /\ lastResp.pre.registered = 5
  /\ \E ip \in IPs \ {lastResp.clientIP} : Len(ipSessions[ip]) >= 1

\* C7: only live sessions count against the limit: a session-creation request
\* is refused only while its client address has at least 5 sessions in the
\* session store, so that it is accepted again once they have expired and
\* been swept.
C7_OnlyLiveSessionsCount ==
  (SessionAnswered /\ lastResp.status = 429) => lastResp.pre.stored >= 5

(***************************************************************************)
(* Properties of the simulator                                             *)
(***************************************************************************)
\* an iteration of the loop has just ended with the ball rolling inside the
\* hole radius
RollingInHole ==
  /\ simPhase = "loop"
  /\ Len(simLoop.trajectory) > 1
  /\ simLoop.currentState.isRolling
  /\ Hyp(simLoop.currentState.position.x - simConfig.holePosition.x,
         simLoop.currentState.position.y - simConfig.holePosition.y)
       < simConfig.holeRadius

\* C8: the hole is the first terminal condition: whenever an iteration ends
\* with the ball rolling at a distance below holeRadius from the hole, the
\* loop stops with stoppedReason "hole", whatever the speed and the position.
C8_HoleFirst ==
  RollingInHole => (simLoop.stoppedReason = "hole" /\ ~simLoop.running)

\* C9: every result returned by simulate has outcome "win" exactly when its
\* stoppedReason is "hole", and "lose" for friction, boundary and timeout.
C9_WinIffHole ==
  \A p \in simReturned :
    /\ p[2].stoppedReason \in {"hole", "friction", "boundary", "timeout"}
    /\ p[2].outcome \in {"win", "lose"}
    /\ p[2].outcome = "win" <=> p[2].stoppedReason = "hole"

\* a win by the hole and a loss by friction have both been returned
C9_Witness ==
  /\ \E p \in simReturned : p[2].stoppedReason = "hole" /\ p[2].outcome = "win"
  /\ \E p \in simReturned : p[2].stoppedReason = "friction" /\ p[2].outcome = "lose"

\* C10: under one physics configuration, simulate calls with the same input
\* return the same result (trajectory, outcome, stoppedReason and all other
\* fields), on a fresh instance or after earlier calls alike.
C10_Deterministic ==
  \A p, q \in simReturned : p[1] = q[1] => p[2] = q[2]

\* two calls with the same input have returned, the second on an instance
\* whose RNG field the first had left advanced
C10_Witness ==
  /\ simPhase = "idle"
  /\ simCalls = 2
  /\ simThrown = {}
  /\ Cardinality(simReturned) = 1
  /\ simRng # FreshRng

(***************************************************************************)
(* Properties of the game: the two simulations, the coupon award, expiry   *)
(***************************************************************************)
\* C11: for one session seed and one shot, the play route's simulation and
\* the play page's local simulation reach the same outcome, and the play
\* route reaches the same outcome on every evaluation.
C11_SameOutcome ==
  \A p, q \in evaluations :
    (p.seed = q.seed /\ p.shot = q.shot) => p.outcome = q.outcome

\* C12: an accepted play returns an awardedCoupon exactly when its outcome
\* is "win", and the coupon awarded is couponIds[seed mod length] of the
\* session, one of the coupons the session was created with.
C12_CouponIffWin ==
  (PlayAnswered /\ lastResp.status = 200) =>
    /\ (lastResp.coupon # "") <=> (lastResp.outcome = "win")
    /\ (lastResp.coupon # "" /\ lastResp.sessionId \in DOMAIN sessions) =>
         /\ lastResp.coupon = SelectedCoupon(sessions[lastResp.sessionId])
         /\ \E i \in 1..Len(sessions[lastResp.sessionId].couponIds) :
              sessions[lastResp.sessionId].couponIds[i] = lastResp.coupon

\* the instants just before, at and just after the expiry of a session
AroundExpiry(session) ==
  {session.expiresAt - 1, session.expiresAt, session.expiresAt + 1}

\* C13: a play request for a session whose expiry has passed is never
\* accepted: it is answered 410 "Session expired" while the session is stored
\* and 404 "Invalid session" once it is removed; the sweep removes exactly
\* the sessions past their expiry and leaves the others as they are; and
\* deleting a deleted session changes nothing.
C13_Expiry ==
  /\ PlayAnswered =>
       /\ (lastResp.pre.exists /\ lastResp.pre.expired) =>
            /\ lastResp.status = 410 /\ lastResp.error = "Session expired"
            /\ ~lastResp.simulated
       /\ ~lastResp.pre.exists =>
            /\ lastResp.status = 404 /\ lastResp.error = "Invalid session"
            /\ ~lastResp.simulated
  /\ \A sid \in DOMAIN sessions : \A t \in AroundExpiry(sessions[sid]) \cup {now} :
       LET rej == PlayReject(sessions, recentPlays,
                             PlayRequest(sid, PlayBody(0, [angle |-> 0, anglePhi |-> 0,
                                                          power |-> 1000], {}), t), t)
           swept == SweepSessions(sessions, t)
       IN /\ (t > sessions[sid].expiresAt) <=> (rej.status = 410)
          /\ (t > sessions[sid].expiresAt) <=> (sid \notin DOMAIN swept)
          /\ sid \in DOMAIN swept => swept[sid] = sessions[sid]
          /\ DOMAIN swept \subseteq DOMAIN sessions
  /\ lastSweep = now => \A sid \in DOMAIN sessions : sessions[sid].expiresAt >= now
  /\ \A sid \in SessionIds :
       LET once == sessionManagerDelete(sessions, sid)
           twice == sessionManagerDelete(once.sessions, sid)
       IN /\ sid \notin DOMAIN once.sessions
          /\ once.result = (sid \in DOMAIN sessions)
          /\ \A other \in DOMAIN sessions \ {sid} :
               other \in DOMAIN once.sessions /\ once.sessions[other] = sessions[other]
          /\ twice.sessions = once.sessions
          /\ ~twice.result

\* right after a sweep that removed it, a session that had been created and
\* had expired has been played, and the answer is 404
C13_Witness ==
  /\ PlayAnswered
  /\ lastResp.status = 404
  /\ lastResp.sessionId < nextSid
  /\ lastSweep = now
  /\ lastSweep > 0

(***************************************************************************)
(* Properties of the simulator: rounding and validation                    *)
(***************************************************************************)
\* a ball state all of whose position and velocity components are on the
\* grid of 4 decimals
Rounded4(st) ==
  /\ Round4(st.position.x) = st.position.x
  /\ Round4(st.position.y) = st.position.y
  /\ Round4(st.velocity.x) = st.velocity.x
  /\ Round4(st.velocity.y) = st.velocity.y

\* C14: every position and velocity component of every state of a returned
\* trajectory, the initial state at t = 0 included, equals itself rounded to
\* 4 decimal places.
C14_RoundingClosure ==
  \A p \in simReturned :
    \A i \in 1..Len(p[2].trajectory) : Rounded4(p[2].trajectory[i])

\* anglePhi within [-pi/2, pi/2]
PhiInRange(input) == input.anglePhi >= -90 /\ input.anglePhi <= 90

\* C15: an input whose anglePhi is outside [-pi/2, pi/2] is invalid even if
\* its angle, power and seed are valid: simulate fails on it, so that no
\* simulation is run and no result is returned for such an input.
C15_AnglePhiRejected ==
  /\ simPhase = "loop" => PhiInRange(simInput)
  /\ \A p \in simReturned : PhiInRange(p[1])

\* what makes an input invalid: angle outside [-pi/2, pi/2], power outside
\* [0, 1], a seed that is not a non-negative integer
OutOfRange(input) ==
  \/ input.angle < -90 \/ input.angle > 90
  \/ input.power < 0 \/ input.power > 1000
  \/ input.seedFrac # 0 \/ input.seed < 0

\* C16: for an input whose anglePhi is in range, simulate fails exactly when
\* the angle, the power or the seed is out of range, and it fails before the
\* RNG is reseeded and before any step: the RNG is as it was and no call is
\* in progress.  The bounds angle = +-pi/2, power = 0, power = 1 are valid,
\* and a warning does not make an input invalid.
C16_InvalidInputThrows ==
  /\ \A input \in SimInputs :
       PhiInRange(input) => (validateInput(input).isValid <=> ~OutOfRange(input))
  /\ \A t \in simThrown :
       /\ OutOfRange(t.input)
       /\ t.rngAfter = t.rngBefore
       /\ t.phaseAfter = "idle"
  /\ (simPhase = "loop" /\ PhiInRange(simInput)) => ~OutOfRange(simInput)
  /\ \A p \in simReturned : PhiInRange(p[1]) => ~OutOfRange(p[1])

\* a chip straight up at low power, which draws both warnings, has returned
\* a result, and the next call, with an input out of range, has failed and
\* left the RNG where the first call had left it
C16_Witness ==
  /\ \E p \in simReturned :
       /\ p[1].angle = 90
       /\ Len(validateInput(p[1]).warnings) = 2
  /\ \E t \in simThrown : t.rngBefore # FreshRng /\ t.rngAfter = t.rngBefore
  /\ simPhase = "idle"

(***************************************************************************)
(* Properties of SeededRNG                                                 *)
(***************************************************************************)
\* the first k values of next() on an object whose seed field is seed
RECURSIVE FreshOutputs(_, _)
FreshOutputs(seed, k) ==
  IF k = 0 THEN <<>>
  ELSE <<RngNext(seed).out>> \o FreshOutputs(RngNext(seed).seed, k - 1)

\* C17: after reset(s) the values of next() are those of a fresh
\* SeededRNG(s), and after reset() without argument they are again, from
\* the first one, those of the seed the object was constructed with.
C17_Reset ==
  rngMade => rngOuts = FreshOutputs(ToWord(rngGiven), Len(rngOuts))

\* the first n decimals of the fraction w / 2^32, by long multiplication
RECURSIVE DecimalDigits(_, _)
DecimalDigits(w, n) ==
  IF n = 0 THEN <<>>
  ELSE <<(w[1] * 10 + ((w[2] * 10) \div W16)) \div W16>>
       \o DecimalDigits(<<(w[1] * 10 + ((w[2] * 10) \div W16)) % W16, (w[2] * 10) % W16>>,
                        n - 1)

\* the number written by the digits ds[from..to]
RECURSIVE DigitsValue(_, _, _)
DigitsValue(ds, from, to) ==
  IF to < from THEN 0 ELSE 10 * DigitsValue(ds, from, to - 1) + ds[to]

\* the fraction w / 2^32 cut after 11 decimals: <<decimals 1-5, decimals 6-11>>
Dec11Of(ds) == <<DigitsValue(ds, 1, 5), DigitsValue(ds, 6, 11)>>

Dec11(w) == Dec11Of(DecimalDigits(w, 11))

\* two fractions cut after 11 decimals that differ by less than 5 units of
\* the 11th decimal: equal to 10 decimals
CloseTo10(a, b) ==
  /\ Abs(a[1] - b[1]) <= 1
  /\ Abs((a[1] - b[1]) * Million + a[2] - b[2]) < 5

\* 0.6011037379410118, 0.5158445693086833, 0.7964649512432516,
\* 0.0883520869538188, 0.4347027358505875, cut after 11 decimals
ListedSequence ==
  <<<<60110, 373794>>, <<51584, 456930>>, <<79646, 495124>>,
    <<8835, 208695>>, <<43470, 273585>>>>

\* the first values of next() on a SeededRNG(12345) that was not reset
Outputs12345 ==
  IF rngMade /\ rngCtor = 12345 /\ rngResets = 0
  THEN SubSeq(rngOuts, 1, Min2(Len(rngOuts), 5)) ELSE <<>>

MulberrySequence ==
  <<<<64207, 30917>>, <<20103, 20736>>, <<31732, 58098>>, <<53604, 9808>>,
    <<33385, 58826>>>>

\* 0.97972826776..., 0.30675226449..., 0.48420542152..., 0.81793441250...,
\* 0.50942836934..., cut after 11 decimals
MulberryDecimals ==
  <<<<97972, 826776>>, <<30675, 226449>>, <<48420, 542152>>,
    <<81793, 441250>>, <<50942, 836934>>>>

FiveCoupons(couponIds) ==
  couponIds.present /\ couponIds.isArray /\ Len(couponIds.items) = 5

\* the step is a session-creation request that has been answered
SessionRequestStep == lastResp'.route = "session" /\ lastResp' # lastResp

\* C19: a session-creation request whose couponIds is not an array of
\* exactly 5 ids (missing, not an array, fewer, more) is answered 400, stores
\* no session and registers nothing against the client address; a request
\* that succeeds had exactly 5 ids and stores a new session with used = false
\* and playCount = 0.
C19_ExactlyFiveCoupons ==
  [][SessionRequestStep =>
       /\ ~FiveCoupons(lastResp'.couponIds) =>
            /\ lastResp'.status = 400
            /\ lastResp'.error = "Must provide exactly 5 coupon IDs"
            /\ sessions' = sessions
            /\ ipSessions' = ipSessions
            /\ nextSid' = nextSid
       /\ lastResp'.status = 200 =>
            /\ FiveCoupons(lastResp'.couponIds)
            /\ lastResp'.sessionId \notin DOMAIN sessions
            /\ DOMAIN sessions' = DOMAIN sessions \cup {lastResp'.sessionId}
            /\ sessions'[lastResp'.sessionId].used = FALSE
            /\ sessions'[lastResp'.sessionId].playCount = 0
            /\ sessions'[lastResp'.sessionId].couponIds = lastResp'.couponIds.items
            /\ \A id \in DOMAIN sessions : sessions'[id] = sessions[id]
       /\ lastResp'.status # 200 => sessions' = sessions /\ ipSessions' = ipSessions
  ]_vars

\* a string of five characters has been refused with 400 while a session
\* created from five ids is stored, unused and unplayed
C19_Witness ==
  /\ lastResp.route = "session"
  /\ lastResp.status = 400
  /\ lastResp.couponIds.present /\ ~lastResp.couponIds.isArray
  /\ Len(lastResp.couponIds.items) = 5
  /\ \E id \in DOMAIN sessions :
       ~sessions[id].used /\ sessions[id].playCount = 0 /\ Len(sessions[id].couponIds) = 5

\* C20: sessionManager.update changes the stored session only: an object
\* that was passed to create() stays as it was when it was passed, whatever
\* updates follow, and every stored session reads as the session it was
\* created from with the updates made to it, and to no other, applied.
C20_UpdateIsolation ==
  /\ \A ref \in 1..Len(storeHeap) : storeHeap[ref] = storePassed[ref]
  /\ \A id \in StoreIds :
       storeMap[id] # 0 => storeHeap[storeMap[id]] = storeExpect[id]

(***************************************************************************)
(* Properties of the step loop: its length, its log, its wind              *)
(***************************************************************************)
\* maxSimTime / timestep
StepLimit(config) == config.maxSimTime * TicksPerSecond

\* C25: simulate terminates within maxSimTime / timestep iterations of its
\* loop (1800 for 15 s at 1/120 s): the loop in progress has run at most
\* that many and stops once it has, a returned trajectory has at most that
\* many entries plus the initial one, and stoppedReason is "timeout" exactly
\* when no terminal test (hole, friction, boundary) fired on the last step.
C25_BoundedLoop ==
  /\ simPhase = "loop" =>
       /\ simLoop.currentState.time <= StepLimit(simConfig)
       /\ simLoop.currentState.time = StepLimit(simConfig) => ~simLoop.running
  /\ \A p \in simReturned :
       /\ Len(p[2].trajectory) <= StepLimit(simConfig) + 1
       /\ p[2].totalTime <= StepLimit(simConfig)
       /\ p[2].stoppedReason = "timeout" <=>
            StopCheck(simConfig, p[2].trajectory[Len(p[2].trajectory)]) = "none"
\* a trajectory that starts with the state at t = 0 at the tee and has one
\* entry per timestep of time
StepLog(trajectory) ==
  /\ Len(trajectory) >= 1
  /\ trajectory[1].time = 0
  /\ trajectory[1].position = [x |-> 0, y |-> 0]
  /\ \A i \in 1..(Len(trajectory) - 1) : trajectory[i + 1].time = trajectory[i].time + 1

\* C26: the trajectory is an append-only log.  It starts with the initial
\* state at t = 0, it has one entry per executed step after that, with times
\* one timestep apart; a step of the loop appends exactly one entry and
\* leaves the earlier entries as they were; and the last entry of a returned
\* trajectory has the position finalPosition and the time totalTime.
C26_AppendOnlyLog ==
  /\ [](simPhase = "loop" =>
          /\ StepLog(simLoop.trajectory)
          /\ Len(simLoop.trajectory) = simLoop.currentState.time + 1)
  /\ [](\A p \in simReturned :
          /\ StepLog(p[2].trajectory)
          /\ p[2].trajectory[Len(p[2].trajectory)].position = p[2].finalPosition
          /\ p[2].trajectory[Len(p[2].trajectory)].time = p[2].totalTime)
  /\ [][(simPhase = "loop" /\ simPhase' = "loop") =>
          /\ Len(simLoop'.trajectory) = Len(simLoop.trajectory) + 1
          /\ SubSeq(simLoop'.trajectory, 1, Len(simLoop.trajectory)) = simLoop.trajectory]_vars

\* a simulation of several steps has returned, and another one is several
\* steps into its loop
C26_Witness ==
  /\ \E p \in simReturned : Len(p[2].trajectory) > 3
  /\ simPhase = "loop"
  /\ Len(simLoop.trajectory) > 3
\* the wind simulate draws for a seed under a wind limit, on a simulator that
\* has nothing else of the configuration and for a ball that is not struck
WindFor(seed, windMaxMagnitude) ==
  SimBegin([DEFAULT_PHYSICS_CONFIG EXCEPT !.windMaxMagnitude = windMaxMagnitude],
           FreshRng, SimInput(0, 0, 0, seed, 0)).windEffect

\* C27: the wind of a simulate call is drawn once, before the loop.  A step
\* of the loop draws nothing from the RNG and leaves the wind as it is, and
\* the windEffect returned is the one determined by the seed and by
\* windMaxMagnitude alone, whatever the angle, the power, the rest of the
\* configuration and the number of steps.
C27_WindDrawnOnce ==
  /\ [][(simPhase = "loop" /\ simPhase' = "loop") =>
          /\ simRng' = simRng
          /\ simLoop'.rng = simLoop.rng
          /\ simLoop'.windEffect = simLoop.windEffect]_vars
  /\ [](simPhase = "loop" =>
          simLoop.windEffect = WindFor(simInput.seed, simConfig.windMaxMagnitude))
  /\ [](\A p \in simReturned :
          p[2].windEffect = WindFor(p[1].seed, simConfig.windMaxMagnitude))

\* two shots with one seed and different angles or powers have returned,
\* after different numbers of steps, under a wind that is not calm
C27_Witness ==
  \E p, q \in simReturned :
    /\ p[1].seed = q[1].seed
    /\ <<p[1].angle, p[1].power>> # <<q[1].angle, q[1].power>>
    /\ Len(p[2].trajectory) # Len(q[2].trajectory)
    /\ Len(p[2].trajectory) > 3
    /\ p[2].windEffect # [x |-> 0, y |-> 0]

(***************************************************************************)
(* Properties of the course configurations                                 *)
(***************************************************************************)
\* the loop state after an iteration that flagged the ball as rolling
RollingState ==
  simPhase = "loop" /\ Len(simLoop.trajectory) > 1 /\ simLoop.currentState.isRolling

\* a rolling ball lies on the ground: its height is 0
RollingOnGround == RollingState => simLoop.currentState.position.y = 0

\* C28: on every course that CourseManager can select a win is reachable:
\* the simulator built on the course's getPhysicsConfig has its hole in the
\* plane the ball rolls in, |holePosition.y| < holeRadius, so that a rolling
\* ball, whose height is 0, can come within holeRadius of it.
C28_WinReachable ==
  (simPhase # "none" /\ simConfig \in CourseConfigs)
    => Abs(simConfig.holePosition.y) < simConfig.holeRadius

(***************************************************************************)
(* Properties of the input checks of the play route                        *)
(***************************************************************************)
\* C23: no play is accepted unless its input held a numeric timestamp within
\* replayProtectionWindowMs of the server clock: a request that reaches
\* validatePlay without a numeric timestamp is answered 429 "Timestamp
\* outside acceptable window", as a stale one is.
C23_TimestampRequired ==
  /\ (PlayAnswered /\ lastResp.status = 200) =>
       /\ "timestamp" \notin lastResp.absent
       /\ lastResp.offset <= DEFAULT_SECURITY_CONFIG.replayProtectionWindowMs
       /\ -lastResp.offset <= DEFAULT_SECURITY_CONFIG.replayProtectionWindowMs
  /\ (ReachedValidatePlay /\ "timestamp" \in lastResp.absent) =>
       /\ lastResp.status = 429
       /\ lastResp.error = "Timestamp outside acceptable window"

\* a step of the play route that answers 400: the request leaves the server
\* with one of the two input errors
InputRejected ==
  /\ inflight' # inflight /\ plays' = plays
  /\ lastResp'.route = "play" /\ lastResp'.status = 400

\* C24: a play request rejected for its input parameters (400, not numbers or
\* out of range) leaves the session record and the recentPlays of its
\* session as they were, so that a corrected request for the same session
\* right after it is not rejected for the burst window.
C24_RejectedInputLeavesNoTrace ==
  /\ [][InputRejected => (sessions' = sessions /\ recentPlays' = recentPlays)]_vars
  /\ []((PlayAnswered /\ lastResp.status = 400) =>
          validatePlay(recentPlays, lastResp.sessionId, Num(now), now).allowed)

(***************************************************************************)
(* Properties of the play page                                             *)
(***************************************************************************)
\* the request of the page's shot reached the input checks of the play
\* route: its session was stored, unexpired and unused, and validatePlay
\* allowed it
ShotReachedInputChecks ==
  /\ pageFetch.stage = "answered"
  /\ pageFetch.response.pre.exists /\ ~pageFetch.response.pre.expired
  /\ ~pageFetch.response.pre.used
  /\ ~pageFetch.response.pre.outside /\ ~pageFetch.response.pre.burst

\* the page never shows a result
ResultNeverShown == gameState # "result" /\ pageTimers = {}

\* C29: a shot of the page on a stored, unused, unexpired session with angle
\* and power in range passes the input checks of the play route (it is
\* answered 200); the result the page shows is the outcome and coupon of a
\* response of the server; and a rejected shot leaves the page in "playing"
\* with the error of the response, not in "animating".
C29_ShotShowsServerResult ==
  /\ (ShotReachedInputChecks /\ InRange(pageFetch.shot)) =>
       pageFetch.response.status = 200
  /\ gameState = "result" => gameResult # NoResult
  /\ (gameState = "animating") =>
       (pageFetch.stage # "none" \/ pageTimers # {})

(***************************************************************************)
(* Properties of the wallet                                                *)
(***************************************************************************)
\* C30: getStats partitions the wallet whatever it holds: activeCoupons is
\* never negative and is the number of coupons that are neither used nor
\* expired, also when a coupon is both used and expired.
C30_StatsPartition ==
  LET stats == getStats(walletStored, walletClock)
  IN /\ stats.activeCoupons >= 0
     /\ stats.activeCoupons =
          Cardinality({i \in DOMAIN walletStored :
                         /\ ~walletStored[i].used
                         /\ ~(walletStored[i].coupon.expiry < walletClock)})

(***************************************************************************)
(* Properties of the previews                                              *)
(***************************************************************************)
\* the wind magnitude simulate draws for a seed on a configuration: the
\* second draw after the reset to the seed
SimWindMagnitude(config, seed) ==
  RngRange(RngNext(RngReset(FreshRng, seed)).seed, 0, config.windMaxMagnitude).value

\* C21: the full preview draws its wind as simulate does: for a seed, the
\* wind magnitude of calculate3DTrajectoryPreview is the one simulate draws
\* for that seed, and the previews of different seeds have different winds.
C21_PreviewWindAsSimulate ==
  /\ \A p \in previewPaths : p.wind.magnitude = SimWindMagnitude(p.config, p.seed)
  /\ \A p, q \in previewPaths : p.seed # q.seed => p.wind # q.wind

\* C22: calculateTrajectoryPreview with power 0 returns exactly one point,
\* (0, 0), whatever the angle and the number of steps.
C22_ZeroPowerOnePoint ==
  (previewArc.called /\ previewArc.power = 0) =>
    previewArc.points = <<[x |-> 0, y |-> 0]>>

====
